---- MODULE Spec2Model ----
(***************************************************************************)
(* The booking agent's conversation orchestrator                           *)
(* (src/app/agent/orchestrator.py): one pass of process_message through    *)
(* the graph classify_intent -> handler -> check_approval_needed ->        *)
(* save_to_database, the slot normalizer of the inquiry handler, and the   *)
(* persistence store the pass writes to; the retry loop of                  *)
(* LLMService.generate (src/app/services/llm_service.py) and the inbound   *)
(* email webhook with its signature check (src/app/api/routes/webhooks.py, *)
(* src/app/utils/webhook_signature.py).                                    *)
(*                                                                         *)
(* Texts are TLA+ strings handled character by character (Len, SubSeq,     *)
(* Head, Tail, \o), so keyword matching, case folding, stripping and the   *)
(* regular expressions are computed as the Python code computes them.      *)
(***************************************************************************)
EXTENDS Integers, Sequences, FiniteSets, TLC

VARIABLES
    st,             \* st[p]: the AgentState and position of pass p
    conversations,  \* store: ids of the conversation records
    contacts,       \* store: rows of the contacts table, in insertion order
    stored,         \* store: rows of the messages table, in insertion order
    log,            \* structlog records of the inquiry handler, in order
    passes,         \* number of process_message calls made so far
    env,            \* what the environment of this run offers (fixed by Init)
    norm,           \* the normalizer exercised on its own: input and results
    gen,            \* one call of LLMService.generate: its loop and outcome
    hook            \* one request to the email webhook and what it caused

vars ==
    <<st, conversations, contacts, stored, log, passes, env, norm, gen, hook>>

-----------------------------------------------------------------------------
(* Python string primitives *)

Digits == {"0", "1", "2", "3", "4", "5", "6", "7", "8", "9"}

IsDigit(c) == c \in Digits

\* The characters str.strip() and str.split() with no argument take for
\* whitespace (str.isspace), as far as a string of this module can hold them:
\* space, \t, \n, \r, \f, then U+000B, U+001C, U+001D, U+001E, U+001F, U+0085
\* and U+00A0 written as the characters themselves. The whitespace characters
\* from U+1680 upwards cannot be written in a string here: the texts of the
\* model stay below U+0100.
WhiteSpace ==
    {" ", "\t", "\n", "\r", "\f",
     "", "", "", "", "", "", " "}

\* the capitals str.lower() changes among the characters below U+0100: A-Z
\* and U+00C0-U+00DE without the multiplication sign U+00D7
UpperLetters ==
    "ABCDEFGHIJKLMNOPQRSTUVWXYZ" \o "ÀÁÂÃÄÅÆÇÈÉÊËÌÍÎÏÐÑÒÓÔÕÖØÙÚÛÜÝÞ"

\* what str.lower() makes of them: the character 32 code points further on
LowerLetters ==
    "abcdefghijklmnopqrstuvwxyz" \o "àáâãäåæçèéêëìíîïðñòóôõöøùúûüýþ"

\* upper-case letter -> lower-case letter
LowerOf ==
    [c \in {SubSeq(UpperLetters, i, i) : i \in 1..Len(UpperLetters)} |->
        LET i == CHOOSE j \in 1..Len(UpperLetters) :
                    SubSeq(UpperLetters, j, j) = c
        IN  SubSeq(LowerLetters, i, i)]

LowerCh(c) == IF c \in DOMAIN LowerOf THEN LowerOf[c] ELSE c

RECURSIVE Lower(_)
\* str.lower()
Lower(s) ==
    IF s = "" THEN ""
    ELSE IF Len(s) = 1 THEN LowerCh(s)
    ELSE LET h == Len(s) \div 2
         IN  Lower(SubSeq(s, 1, h)) \o Lower(SubSeq(s, h + 1, Len(s)))

RECURSIVE LStrip(_)
LStrip(s) == IF s # "" /\ Head(s) \in WhiteSpace THEN LStrip(Tail(s)) ELSE s

RECURSIVE RStrip(_)
RStrip(s) ==
    IF s # "" /\ SubSeq(s, Len(s), Len(s)) \in WhiteSpace
    THEN RStrip(SubSeq(s, 1, Len(s) - 1))
    ELSE s

\* str.strip()
Strip(s) == RStrip(LStrip(s))

\* k in s
Contains(s, k) ==
    \E i \in 1..(Len(s) - Len(k) + 1) : SubSeq(s, i, i + Len(k) - 1) = k

\* any(word in s for word in words)
AnyIn(words, s) == \E i \in 1..Len(words) : Contains(s, words[i])

RECURSIVE RemoveCommas(_)
\* s.replace(",", "")
RemoveCommas(s) ==
    IF s = "" THEN ""
    ELSE IF Head(s) = "," THEN RemoveCommas(Tail(s))
    ELSE Head(s) \o RemoveCommas(Tail(s))

RECURSIVE Replace(_, _, _)
\* s.replace(old, new), old non-empty
Replace(s, old, new) ==
    LET at == {i \in 1..(Len(s) - Len(old) + 1) :
                    SubSeq(s, i, i + Len(old) - 1) = old}
    IN  IF at = {} THEN s
        ELSE LET k == CHOOSE i \in at : \A j \in at : i <= j
             IN  SubSeq(s, 1, k - 1) \o new
                    \o Replace(SubSeq(s, k + Len(old), Len(s)), old, new)

RECURSIVE FromFirstDigit(_)
\* the suffix of s that starts at its first digit, "" when s has no digit
FromFirstDigit(s) ==
    IF s = "" THEN ""
    ELSE IF IsDigit(Head(s)) THEN s
    ELSE FromFirstDigit(Tail(s))

RECURSIVE TakeDigits(_)
\* the longest prefix of s made of digits
TakeDigits(s) ==
    IF s = "" \/ ~IsDigit(Head(s)) THEN "" ELSE Head(s) \o TakeDigits(Tail(s))

\* re.search(r"(\d+)", s) is not None
HasDigit(s) == FromFirstDigit(s) # ""

\* re.search(r"(\d+)", s).group(1): the first run of digits
FirstDigits(s) == TakeDigits(FromFirstDigit(s))

\* re.search(r"(\d+\.?\d*)", s).group(1): digits, an optional dot, digits
FirstDecimal(s) ==
    LET t    == FromFirstDigit(s)
        d    == TakeDigits(t)
        rest == SubSeq(t, Len(d) + 1, Len(t))
    IN  IF rest # "" /\ Head(rest) = "."
        THEN d \o "." \o TakeDigits(Tail(rest))
        ELSE d

RECURSIVE NatToStr(_)
NatToStr(n) ==
    IF n < 10 THEN SubSeq("0123456789", n + 1, n + 1)
    ELSE NatToStr(n \div 10) \o SubSeq("0123456789", (n % 10) + 1, (n % 10) + 1)

\* str(n) of an int
IntToStr(n) == IF n < 0 THEN "-" \o NatToStr(0 - n) ELSE NatToStr(n)

RECURSIVE Join(_, _)
\* sep.join(xs)
Join(sep, xs) ==
    IF xs = <<>> THEN ""
    ELSE IF Len(xs) = 1 THEN xs[1]
    ELSE xs[1] \o sep \o Join(sep, Tail(xs))

-----------------------------------------------------------------------------
(* JSON values as json.loads returns them: a str, an int, a bool or None *)

StrVal(s) == [t |-> "str", s |-> s, n |-> 0]

IntVal(n) == [t |-> "int", s |-> "", n |-> n]

BoolVal(b) == [t |-> "bool", s |-> "", n |-> IF b THEN 1 ELSE 0]

NullVal == [t |-> "null", s |-> "", n |-> 0]

\* not val
Falsy(val) ==
    CASE val.t = "str" -> val.s = ""
      [] val.t = "int" -> val.n = 0
      [] val.t = "bool" -> val.n = 0
      [] OTHER -> TRUE

\* str(val)
PyStr(val) ==
    CASE val.t = "str" -> val.s
      [] val.t = "int" -> IntToStr(val.n)
      [] val.t = "bool" -> IF val.n = 1 THEN "True" ELSE "False"
      [] OTHER -> "None"

-----------------------------------------------------------------------------
(* The slot normalizer: normalize, nested in handle_venue_inquiry *)

NotSpecified == "(not specified)"

AttendanceWords ==
    <<"attendance", "people", "folks", "guests", "attendees", "crowd", "residents">>

PaymentWords ==
    <<"$", "budget", "pay", "fee", "quote", "pricing", "rate", "discount">>

PaYes ==
    {"yes", "provided", "available", "have pa", "have a pa", "pa provided",
     "sound and staging are provided"}

PaNo ==
    {"no", "not available", "need pa", "no pa", "don't have pa",
     "do not have pa", "need you to bring one"}

DurationWords == <<"hour", "set", "duration", "evening", "afternoon">>

VagueDateWords ==
    <<"early", "late", "summer", "spring", "fall", "winter", "evening", "afternoon">>

\* val == "(not specified)"
IsSentinel(val) == val.t = "str" /\ val.s = NotSpecified

\* the guard of the first return: not val or val == "(not specified)"
NormalizeEmpty(val) == Falsy(val) \/ IsSentinel(val)

normalize(val) ==
    IF NormalizeEmpty(val) THEN NotSpecified
    ELSE
    LET s == Strip(PyStr(val))
        l == Lower(s)
    IN  IF AnyIn(AttendanceWords, l)
        THEN IF HasDigit(s) THEN FirstDigits(s) ELSE s
        ELSE IF AnyIn(PaymentWords, l)
        THEN LET c == RemoveCommas(s)
             IN  IF HasDigit(c) THEN "$" \o FirstDigits(c) ELSE s
        ELSE IF l \in PaYes THEN "yes"
        ELSE IF l \in PaNo THEN "no"
        ELSE IF AnyIn(DurationWords, l)
        THEN IF HasDigit(s) THEN FirstDecimal(s) \o " hours" ELSE s
        ELSE IF AnyIn(VagueDateWords, l) THEN s
        ELSE s

-----------------------------------------------------------------------------
(* Values of the AgentState and of the store *)

\* Python's None where a str is expected (next_action, an id, a name)
None == "<None>"

SlotKeys ==
    <<"requested_dates", "event_type", "expected_attendance", "payment_offer",
      "pa_available", "load_in_time">>

SlotKeySet == {SlotKeys[i] : i \in 1..Len(SlotKeys)}

\* the roster of classify_intent
band_member_emails ==
    {"dave@sickdaywithferris.band", "john@sickdaywithferris.band",
     "mike@sickdaywithferris.band", "sarah@sickdaywithferris.band"}

\* booking_constraints rows the store returns (active = true)
StoreConstraints ==
    <<[constraint_type |-> "min_payment", amount |-> 1500]>>

HumanMessage(content) == [role |-> "human", content |-> content]

AIMessage(content) == [role |-> "ai", content |-> content]

IsHuman(m) == m.role = "human"

IsAI(m) == m.role = "ai"

\* the extraction output before json.loads could be applied
NoExtraction == [kind |-> "none", obj |-> <<>>]

NoSlots == [k \in SlotKeySet |-> None]

NoResult ==
    [response |-> None, conversation_id |-> None, intent |-> None,
     requires_human_approval |-> FALSE, next_action |-> None]

\* what the completion service answered in a pass: nothing yet
NoAnswers == [classifier |-> None, extraction |-> NoExtraction, reply |-> None]

\* a pass that is not running: no process_message call is in progress
IdlePass ==
    [pc |-> "idle", messages |-> <<>>, conversation_id |-> None,
     sender_email |-> "", sender_name |-> "", sender_type |-> "venue",
     intent |-> "", booking_constraints |-> <<>>,
     requires_human_approval |-> FALSE, next_action |-> None,
     created |-> FALSE, classified |-> None, routed |-> None,
     slots |-> NoSlots, path |-> <<>>, calls |-> <<>>, error |-> None,
     heard |-> NoAnswers, awaiting |-> None, result |-> NoResult]

\* variant: the state built without the conversation id
initial_state_without_id(message_content, sender_email, sender_name, sender_type, conversation_id, created) ==
    [IdlePass EXCEPT
        !.pc = "classify_intent",
        !.messages = <<HumanMessage(message_content)>>,
        !.sender_email = sender_email,
        !.sender_name = sender_name,
        !.sender_type = sender_type,
        !.created = created]

\* initial_state of process_message
initial_state(message_content, sender_email, sender_name, sender_type, conversation_id, created) ==
    [IdlePass EXCEPT
        !.pc = "classify_intent",
        !.messages = <<HumanMessage(message_content)>>,
        !.conversation_id = conversation_id,
        !.sender_email = sender_email,
        !.sender_name = sender_name,
        !.sender_type = sender_type,
        !.intent = "",
        !.booking_constraints = <<>>,
        !.requires_human_approval = FALSE,
        !.next_action = None,
        !.created = created]

-----------------------------------------------------------------------------
(* What callers and the completion service can supply *)

MaxPasses == 2

\* the offer and the acceptance of test_orchestrator.py
LowOffer == "We can offer $800 for the night. Does that work?"

ContractAsk ==
    "Okay, we can do $1,500 for a 3-hour set on March 15th. We have our own PA system. Can you send over a contract?"

MessageTexts == {LowOffer, ContractAsk}

Sender(email, name, type) == [email |-> email, name |-> name, type |-> type]

\* a venue contact, a roster member, and a band member the roster lacks
Venue == Sender("sarah@thebasement.com", "Sarah Johnson", "venue")

RosterMember == Sender("Dave@SickDayWithFerris.band", "", "band_member")

Guitarist ==
    Sender("guitarist@sickdaywithferris.band", "Alex (Guitarist)", "band_member")

Senders == {Venue, RosterMember, Guitarist}

\* answers of the completion service to the classification request
ClassifierTexts ==
    {"initial_inquiry", "venue_proposal", "availability_request",
     " Negotiation\n", "contract_discussion", "price of the contract", "other"}

\* answers of the completion service to a reply or draft request
ReplyTexts == {"We accept.", "I AGREE", "Best, [Your Name]"}

\* raw slot values as the extraction examples of the prompt give them
SampleRaw ==
    [k \in SlotKeySet |->
        CASE k = "requested_dates" -> StrVal("late May")
          [] k = "event_type" -> StrVal("wedding")
          [] k = "expected_attendance" -> StrVal("about 100 folks")
          [] k = "payment_offer" -> StrVal("budget is $1,000")
          [] k = "pa_available" -> StrVal("no PA")
          [] OTHER -> StrVal("2 hours early")]

\* a JSON object that gives the keys in `given` and says "(not specified)"
\* for the others
ObjectWith(given) ==
    [kind |-> "object",
     obj |-> [k \in SlotKeySet |->
                IF k \in given THEN SampleRaw[k] ELSE StrVal(NotSpecified)]]

\* a JSON object that holds only the keys in `given`
ObjectOnly(given) ==
    [kind |-> "object", obj |-> [k \in given |-> SampleRaw[k]]]

\* the extraction answer as json.loads sees it: not JSON ("invalid"), a JSON
\* object, or JSON that is no object ("scalar")
FewExtractions ==
    {[kind |-> "invalid", obj |-> <<>>],
     ObjectWith(SlotKeySet),
     ObjectWith(SlotKeySet \ {"requested_dates"}),
     ObjectWith({"event_type"}),
     ObjectOnly({"payment_offer", "pa_available"})}

OddExtractions ==
    {[kind |-> "object",
      obj |-> [ObjectWith(SlotKeySet).obj EXCEPT
                 !["expected_attendance"] = IntVal(150),
                 !["load_in_time"] = StrVal(" ")]],
     [kind |-> "object",
      obj |-> [ObjectWith(SlotKeySet).obj EXCEPT
                 !["payment_offer"] = NullVal,
                 !["pa_available"] = BoolVal(TRUE)]]}

AllExtractions ==
    {ObjectWith(given) : given \in SUBSET SlotKeySet}
        \cup FewExtractions \cup OddExtractions

\* the answers of a run with few texts: a complete object and a partial one
NarrowExtractions ==
    {ObjectWith(SlotKeySet), ObjectOnly({"payment_offer", "pa_available"})}

Extractions ==
    IF env.wide THEN AllExtractions
    ELSE IF env.texts = "narrow" THEN NarrowExtractions
    ELSE FewExtractions

\* the words of the classifier's keyword groups, and words of no group
ClassifierWords ==
    <<"venue", "Booking", "availability", "available", "negotiate", "price",
      "offer", "contract", "general_question", "follow_up">>

\* classifier answers made of one word or of two words in either order
PairClassifierTexts ==
    {""} \cup {ClassifierWords[i] : i \in 1..Len(ClassifierWords)}
        \cup {ClassifierWords[i] \o " " \o ClassifierWords[j] :
                i, j \in 1..Len(ClassifierWords)}

NarrowClassifierTexts ==
    {"availability_request", " Negotiation\n", "contract_discussion", "other"}

\* what the completion service answers to the classification request
ClassifierAnswers ==
    CASE env.texts = "narrow" -> NarrowClassifierTexts
      [] env.texts = "pairs" -> PairClassifierTexts
      [] OTHER -> ClassifierTexts

\* the text of a completion without content: message.content or ""
EmptyCompletion == {""}

\* what the completion service answers to a reply or draft request
ReplyAnswers ==
    CASE env.texts = "narrow" -> {"We accept.", "Best, [Your Name]"}
      [] env.texts = "replies" -> EmptyCompletion \cup ReplyTexts
      [] OTHER -> ReplyTexts

\* the inbound message texts of a run
InboundTexts == IF env.texts = "narrow" THEN {LowOffer} ELSE MessageTexts

-----------------------------------------------------------------------------
(* classify_intent *)

\* variant: the contract group tested before the other groups
KeywordIntentContractFirst(content) ==
    LET intent == Strip(Lower(content))
    IN  IF Contains(intent, "contract") THEN "contract_request"
        ELSE IF Contains(intent, "venue") \/ Contains(intent, "booking")
        THEN "venue_inquiry"
        ELSE IF Contains(intent, "availability") \/ Contains(intent, "available")
        THEN "availability_request"
        ELSE IF Contains(intent, "negotiat") \/ Contains(intent, "price")
                \/ Contains(intent, "offer")
        THEN "negotiation"
        ELSE "general"

\* the keyword groups, in priority order
KeywordIntent(content) ==
    LET intent == Strip(Lower(content))
    IN  IF Contains(intent, "venue") \/ Contains(intent, "booking")
        THEN "venue_inquiry"
        ELSE IF Contains(intent, "availability") \/ Contains(intent, "available")
        THEN "availability_request"
        ELSE IF Contains(intent, "negotiat") \/ Contains(intent, "price")
                \/ Contains(intent, "offer")
        THEN "negotiation"
        ELSE IF Contains(intent, "contract") THEN "contract_request"
        ELSE "general"

\* variant: the first message recognised by an empty messages table
is_first_message_in_store(messages) == stored = <<>>

is_first_message(messages) == Len(messages) <= 1

\* variant: the roster test without .lower()
InRosterCaseSensitive(sender_email) == sender_email \in band_member_emails

InRoster(sender_email) == Lower(sender_email) \in band_member_emails

\* variant: the first-message test written with < instead of <=
ForceVenueInquiryStrict(sender_email, messages) ==
    ~InRoster(sender_email) /\ Len(messages) < 1

\* the override at the end of classify_intent
ForceVenueInquiry(sender_email, messages) ==
    ~InRoster(sender_email) /\ is_first_message(messages)

\* variant: the default branch wired to the availability handler
RouteGeneralToAvailability(intent) ==
    CASE intent = "venue_inquiry" -> "handle_venue_inquiry"
      [] intent = "availability_request" -> "handle_availability_request"
      [] intent = "negotiation" -> "handle_negotiation"
      [] intent = "contract_request" -> "handle_contract_request"
      [] intent = "general" -> "handle_availability_request"

\* the conditional edges out of classify_intent
route_by_intent(intent) ==
    CASE intent = "venue_inquiry" -> "handle_venue_inquiry"
      [] intent = "availability_request" -> "handle_availability_request"
      [] intent = "negotiation" -> "handle_negotiation"
      [] intent = "contract_request" -> "handle_contract_request"
      [] intent = "general" -> "handle_venue_inquiry"

Call(purpose, arg) == [purpose |-> purpose, arg |-> arg]

\* variant: the handlers wired straight to the persister
EdgeSkipsApproval(node) == "save_to_database"

\* the unconditional edges of the graph: every handler leads to the approval
\* check, the approval check to the persister
Edge(node) ==
    CASE node = "check_approval_needed" -> "save_to_database"
      [] OTHER -> "check_approval_needed"

\* variant: the retry of a stage that raised
OnStageErrorRetry(node) == node

\* a stage that raises ends graph.ainvoke: process_message raises to its
\* caller, no edge out of the stage is followed
OnStageError(node) == "failed"

\* what can go wrong inside a stage: the completion service raises LLMError
\* ("llm") or the constraint query of the store raises ("constraints")
StageFaults(kinds) == IF env.faults THEN {"none"} \cup kinds ELSE {"none"}

\* the pass after `node` raised: the exception leaves the stage, whose
\* completion call, if it made one, was recorded when it was made
Raise(s, node) ==
    [s EXCEPT
        !.awaiting = None,
        !.path = Append(@, node),
        !.error = node,
        !.pc = OnStageError(node)]

\* classify_intent up to `await llm_service.generate(...)`: the stage reads
\* the messages of its state, makes the completion call and returns to the
\* event loop until the call is answered
classify_intent(p) ==
    /\ st[p].pc = "classify_intent"
    /\ st[p].awaiting = None
    /\ LET s == st[p]
           user_messages == SelectSeq(s.messages, IsHuman)
       IN  IF user_messages = <<>>
           THEN st' = [st EXCEPT ![p] =
                [s EXCEPT
                    !.intent = "general",
                    !.routed = "general",
                    !.path = Append(@, "classify_intent"),
                    !.pc = route_by_intent("general")]]
           ELSE st' = [st EXCEPT ![p] =
                [s EXCEPT
                    !.calls = Append(@, Call("classify", "")),
                    !.awaiting = "classify"]]
    /\ UNCHANGED <<conversations, contacts, stored, log, passes, env, norm, gen, hook>>

\* classify_intent from the answer of its completion call to its return
classify_intent_answered(p) ==
    /\ st[p].pc = "classify_intent"
    /\ st[p].awaiting = "classify"
    /\ \E text \in ClassifierAnswers, fault \in StageFaults({"llm"}) :
         LET s == st[p]
             classified == KeywordIntent(text)
             intent ==
                IF ForceVenueInquiry(s.sender_email, s.messages)
                THEN "venue_inquiry"
                ELSE classified
         IN  IF fault = "llm"
             THEN st' = [st EXCEPT ![p] = Raise(s, "classify_intent")]
             ELSE st' = [st EXCEPT ![p] =
                [s EXCEPT
                    !.awaiting = None,
                    !.intent = intent,
                    !.classified = classified,
                    !.routed = intent,
                    !.heard = [@ EXCEPT !.classifier = text],
                    !.path = Append(@, "classify_intent"),
                    !.pc = route_by_intent(intent)]]
    /\ UNCHANGED <<conversations, contacts, stored, log, passes, env, norm, gen, hook>>

-----------------------------------------------------------------------------
(* handle_venue_inquiry *)

\* extracted.get(key, "(not specified)") on the result of json.loads, with
\* extracted = {} when json.loads raised
Extracted(x, key) ==
    IF x.kind = "object" /\ key \in DOMAIN x.obj
    THEN x.obj[key]
    ELSE StrVal(NotSpecified)

\* the six normalized values of the handler
NormalizedSlots(x) == [k \in SlotKeySet |-> normalize(Extracted(x, k))]

\* context[key] == "(not specified)"
IsMissing(value) == value = NotSpecified

\* missing_details: the names the handler asks for, in the order of its checks
missing_details(slots) ==
    (IF IsMissing(slots["event_type"]) THEN <<"event type">> ELSE <<>>)
    \o (IF IsMissing(slots["expected_attendance"])
        THEN <<"expected attendance">> ELSE <<>>)
    \o (IF IsMissing(slots["payment_offer"]) THEN <<"payment offer">> ELSE <<>>)
    \o (IF IsMissing(slots["pa_available"])
        THEN <<"PA system availability">> ELSE <<>>)
    \o (IF IsMissing(slots["load_in_time"]) THEN <<"load-in time">> ELSE <<>>)

follow_up(missing) ==
    "To proceed, could you please provide the following details: "
        \o Join(", ", missing) \o "."

\* the signature patch applied to the generated reply
patched_content(content) ==
    Replace(Replace(content, "[Your Name]", "Ferris"), "[YourName]", "Ferris")

\* variant: the branch condition inverted
InquiryCompleteInverted(missing) == missing # <<>>

\* not missing_details: the handler hands over to the availability stage
InquiryComplete(missing) == missing = <<>>

LogRecord(event, conversation_id, raw, slots, action) ==
    [event |-> event, conversation_id |-> conversation_id, raw |-> raw,
     slots |-> slots, action |-> action]

\* handle_venue_inquiry up to its first `await llm_service.generate(...)`: the
\* constraints are read from the store (a synchronous client: no other pass
\* runs meanwhile) and the extraction call is made
handle_venue_inquiry(p) ==
    /\ st[p].pc = "handle_venue_inquiry"
    /\ st[p].awaiting = None
    /\ \E fault \in StageFaults({"constraints"}) :
         LET s == st[p]
             node == "handle_venue_inquiry"
         IN  IF fault = "constraints"
             THEN st' = [st EXCEPT ![p] = Raise(s, node)]
             ELSE st' = [st EXCEPT ![p] =
                [s EXCEPT
                    !.booking_constraints = StoreConstraints,
                    !.calls = Append(@, Call("extract", "")),
                    !.awaiting = "extract"]]
    /\ UNCHANGED <<conversations, contacts, stored, log, passes, env, norm, gen, hook>>

\* handle_venue_inquiry from the extraction answer to its second completion
\* call, or to its return when no detail is missing. The extraction answer x
\* is what json.loads makes of the generated text. A JSON answer that is no
\* object makes extracted.get raise: the pass fails.
handle_venue_inquiry_extracted(p) ==
    /\ st[p].pc = "handle_venue_inquiry"
    /\ st[p].awaiting = "extract"
    /\ \E x \in Extractions \cup
                (IF env.faults THEN {[kind |-> "scalar", obj |-> <<>>]} ELSE {}),
          fault \in StageFaults({"llm"}) :
         LET s == st[p]
             node == "handle_venue_inquiry"
             slots == NormalizedSlots(x)
             missing == missing_details(slots)
             base == [s EXCEPT !.heard = [@ EXCEPT !.extraction = x]]
         IN  IF fault = "llm"
             THEN /\ st' = [st EXCEPT ![p] = Raise(s, node)]
                  /\ log' = log
             ELSE IF x.kind = "scalar"
             THEN /\ st' = [st EXCEPT ![p] = Raise(base, node)]
                  /\ log' = log
             ELSE IF InquiryComplete(missing)
             THEN /\ st' = [st EXCEPT ![p] =
                        [base EXCEPT
                            !.awaiting = None,
                            !.slots = slots,
                            !.intent = "availability_request",
                            !.path = Append(@, node),
                            !.pc = Edge(node)]]
                  /\ log' = Append(log,
                        LogRecord("venue_inquiry_complete_details",
                                  s.conversation_id, x, slots, None))
             ELSE /\ st' = [st EXCEPT ![p] =
                        [base EXCEPT
                            !.slots = slots,
                            !.calls = Append(@,
                                Call("inquiry_reply", follow_up(missing))),
                            !.awaiting = "inquiry_reply"]]
                  /\ log' = log
    /\ UNCHANGED <<conversations, contacts, stored, passes, env, norm, gen, hook>>

\* handle_venue_inquiry from the answer of the reply call to its return
handle_venue_inquiry_replied(p) ==
    /\ st[p].pc = "handle_venue_inquiry"
    /\ st[p].awaiting = "inquiry_reply"
    /\ \E reply \in ReplyAnswers, fault \in StageFaults({"reply"}) :
         LET s == st[p]
             node == "handle_venue_inquiry"
         IN  IF fault = "reply"
             THEN /\ st' = [st EXCEPT ![p] = Raise(s, node)]
                  /\ log' = log
             ELSE /\ st' = [st EXCEPT ![p] =
                        [s EXCEPT
                            !.awaiting = None,
                            !.messages =
                                Append(@, AIMessage(patched_content(reply))),
                            !.heard = [@ EXCEPT !.reply = reply],
                            !.requires_human_approval = FALSE,
                            !.path = Append(@, node),
                            !.pc = Edge(node)]]
                  /\ log' = Append(log,
                        LogRecord("venue_inquiry_response",
                                  s.conversation_id, s.heard.extraction,
                                  s.slots, None))
    /\ UNCHANGED <<conversations, contacts, stored, passes, env, norm, gen, hook>>

-----------------------------------------------------------------------------
(* handle_availability_request, handle_negotiation, handle_contract_request *)

RECURSIVE BeforeAt(_)
\* email.split("@")[0]
BeforeAt(email) ==
    IF email = "" \/ Head(email) = "@" THEN ""
    ELSE Head(email) \o BeforeAt(Tail(email))

band_member_name(sender_name, sender_email) ==
    IF sender_name = "" \/ Strip(sender_name) = ""
    THEN IF sender_email # "" THEN BeforeAt(sender_email) ELSE "Band Member"
    ELSE Strip(sender_name)

\* variant: the availability reply gated like a negotiation reply
AvailabilityApprovalByText(content) ==
    Contains(Lower(content), "accept") \/ Contains(Lower(content), "agree")

\* state["requires_human_approval"] = False, whatever the reply says
AvailabilityApproval(content) == FALSE

\* handle_availability_request up to `await llm_service.generate(...)`: the
\* prompt names the band member
handle_availability_request(p) ==
    /\ st[p].pc = "handle_availability_request"
    /\ st[p].awaiting = None
    /\ st' = [st EXCEPT ![p] =
            [@ EXCEPT
                !.calls = Append(@,
                    Call("availability_reply",
                         band_member_name(st[p].sender_name,
                                          st[p].sender_email))),
                !.awaiting = "availability_reply"]]
    /\ UNCHANGED <<conversations, contacts, stored, log, passes, env, norm, gen, hook>>

\* handle_availability_request from the answer of its completion call
handle_availability_request_answered(p) ==
    /\ st[p].pc = "handle_availability_request"
    /\ st[p].awaiting = "availability_reply"
    /\ \E reply \in ReplyAnswers, fault \in StageFaults({"llm"}) :
         LET s == st[p]
             node == "handle_availability_request"
         IN  IF fault = "llm"
             THEN st' = [st EXCEPT ![p] = Raise(s, node)]
             ELSE st' = [st EXCEPT ![p] =
                [s EXCEPT
                    !.awaiting = None,
                    !.messages = Append(@, AIMessage(reply)),
                    !.heard = [@ EXCEPT !.reply = reply],
                    !.requires_human_approval = AvailabilityApproval(reply),
                    !.path = Append(@, node),
                    !.pc = Edge(node)]]
    /\ UNCHANGED <<conversations, contacts, stored, log, passes, env, norm, gen, hook>>

\* variant: the reply matched without lower()
TermsAcceptableCaseSensitive(content) ==
    Contains(content, "accept") \/ Contains(content, "agree")

\* "accept" in response.content.lower() or "agree" in response.content.lower()
TermsAcceptable(content) ==
    Contains(Lower(content), "accept") \/ Contains(Lower(content), "agree")

\* variant: next_action assigned outside the if
NegotiationNextActionAlways(content, next_action) == "pending_approval"

\* next_action after the negotiation handler: the else branch leaves it alone
NegotiationNextAction(content, next_action) ==
    IF TermsAcceptable(content) THEN "pending_approval" ELSE next_action

\* handle_negotiation up to `await llm_service.generate(...)`: the constraints
\* are read from the store and the completion call is made
handle_negotiation(p) ==
    /\ st[p].pc = "handle_negotiation"
    /\ st[p].awaiting = None
    /\ \E fault \in StageFaults({"constraints"}) :
         LET s == st[p]
             node == "handle_negotiation"
         IN  IF fault = "constraints"
             THEN st' = [st EXCEPT ![p] = Raise(s, node)]
             ELSE st' = [st EXCEPT ![p] =
                [s EXCEPT
                    !.booking_constraints = StoreConstraints,
                    !.calls = Append(@, Call("negotiation_reply", "")),
                    !.awaiting = "negotiation_reply"]]
    /\ UNCHANGED <<conversations, contacts, stored, log, passes, env, norm, gen, hook>>

\* handle_negotiation from the answer of its completion call to its return
handle_negotiation_answered(p) ==
    /\ st[p].pc = "handle_negotiation"
    /\ st[p].awaiting = "negotiation_reply"
    /\ \E reply \in ReplyAnswers, fault \in StageFaults({"llm"}) :
         LET s == st[p]
             node == "handle_negotiation"
         IN  IF fault = "llm"
             THEN st' = [st EXCEPT ![p] = Raise(s, node)]
             ELSE st' = [st EXCEPT ![p] =
                [s EXCEPT
                    !.awaiting = None,
                    !.messages = Append(@, AIMessage(reply)),
                    !.heard = [@ EXCEPT !.reply = reply],
                    !.requires_human_approval = TermsAcceptable(reply),
                    !.next_action = NegotiationNextAction(reply, @),
                    !.path = Append(@, node),
                    !.pc = Edge(node)]]
    /\ UNCHANGED <<conversations, contacts, stored, log, passes, env, norm, gen, hook>>

\* variant: the contract gate decided by the draft, as in negotiation
ContractApprovalByText(content) == TermsAcceptable(content)

\* state["requires_human_approval"] = True, whatever the draft says
ContractApproval(content) == TRUE

\* variant: the contract handler leaving next_action alone
ContractNextActionUnset(content) == None

ContractNextAction(content) == "contract_approval_needed"

\* handle_contract_request up to `await llm_service.generate(...)`
handle_contract_request(p) ==
    /\ st[p].pc = "handle_contract_request"
    /\ st[p].awaiting = None
    /\ st' = [st EXCEPT ![p] =
            [@ EXCEPT
                !.calls = Append(@, Call("contract_draft", "")),
                !.awaiting = "contract_draft"]]
    /\ UNCHANGED <<conversations, contacts, stored, log, passes, env, norm, gen, hook>>

\* handle_contract_request from the answer of its completion call
handle_contract_request_answered(p) ==
    /\ st[p].pc = "handle_contract_request"
    /\ st[p].awaiting = "contract_draft"
    /\ \E reply \in ReplyAnswers, fault \in StageFaults({"llm"}) :
         LET s == st[p]
             node == "handle_contract_request"
         IN  IF fault = "llm"
             THEN st' = [st EXCEPT ![p] = Raise(s, node)]
             ELSE st' = [st EXCEPT ![p] =
                [s EXCEPT
                    !.awaiting = None,
                    !.messages = Append(@, AIMessage(reply)),
                    !.heard = [@ EXCEPT !.reply = reply],
                    !.requires_human_approval = ContractApproval(reply),
                    !.next_action = ContractNextAction(reply),
                    !.path = Append(@, node),
                    !.pc = Edge(node)]]
    /\ UNCHANGED <<conversations, contacts, stored, log, passes, env, norm, gen, hook>>

-----------------------------------------------------------------------------
(* check_approval_needed *)

\* variant: the flag cleared once the pending approval is logged
ApprovalGateClearing(s) == [s EXCEPT !.requires_human_approval = FALSE]

\* the state check_approval_needed returns: the one it was given
ApprovalGate(s) == s

check_approval_needed(p) ==
    /\ st[p].pc = "check_approval_needed"
    /\ st' = [st EXCEPT ![p] =
            [ApprovalGate(@) EXCEPT
                      !.path = Append(@, "check_approval_needed"),
                      !.pc = Edge("check_approval_needed")]]
    /\ log' = IF st[p].requires_human_approval
              THEN Append(log, LogRecord("Human approval required",
                                         st[p].conversation_id, NoExtraction,
                                         NoSlots, st[p].next_action))
              ELSE log
    /\ UNCHANGED <<conversations, contacts, stored, passes, env, norm, gen, hook>>

-----------------------------------------------------------------------------
(* save_to_database and the store calls it makes *)

ContactId(k) == "contact-" \o NatToStr(k)

ConversationId(k) == "conv-" \o NatToStr(k)

\* the None that get_contact_by_email returns, as a row
NoContact ==
    [id |-> None, email |-> None, name |-> None, first_name |-> None,
     last_name |-> None]

\* get_contact_by_email: the first row with that email, None when there is
\* none or when the query failed
get_contact_by_email(rows, email, query_fails) ==
    LET hits == SelectSeq(rows, LAMBDA c : c.email = email)
    IN  IF query_fails \/ hits = <<>> THEN NoContact ELSE hits[1]

\* the row create_contact inserts: email and name, no first or last name
NewContact(rows, email, name) ==
    [id |-> ContactId(Len(rows) + 1), email |-> email, name |-> name,
     first_name |-> None, last_name |-> None]

\* value or '' for a column that may be None
OrEmpty(value) == IF value = None THEN "" ELSE value

email_prefix(sender_email) ==
    IF sender_email # "" THEN BeforeAt(sender_email) ELSE "Unknown"

\* safe_sender_name: from the contact row when the lookup found one, from the
\* sender name of the message otherwise
safe_sender_name(contact, sender_name, sender_email) ==
    IF contact # NoContact
    THEN LET full == Strip(OrEmpty(contact.first_name) \o " "
                           \o OrEmpty(contact.last_name))
         IN  IF full # "" THEN full ELSE email_prefix(sender_email)
    ELSE IF sender_name # "" THEN sender_name ELSE email_prefix(sender_email)

\* variant: every row written with the user role
MessageRowAlwaysUser(conversation_id, sender_type, sender_id, sender_name, content, role) ==
    [conversation_id |-> conversation_id, sender_type |-> sender_type,
     sender_id |-> sender_id, sender_name |-> sender_name,
     content |-> content, role |-> "user"]

MessageRow(conversation_id, sender_type, sender_id, sender_name, content, role) ==
    [conversation_id |-> conversation_id, sender_type |-> sender_type,
     sender_id |-> sender_id, sender_name |-> sender_name,
     content |-> content, role |-> role]

\* which store calls of one save_to_database run fail: the contact lookup,
\* the contact insert, and the insert of message number fail_at (0: none)
NoFaults == [lookup |-> FALSE, insert |-> FALSE, fail_at |-> 0]

FaultPlans ==
    IF env.faults
    THEN [lookup : BOOLEAN, insert : BOOLEAN, fail_at : 0..2]
    ELSE {NoFaults}

RECURSIVE SaveLoopSkippingFailures(_, _, _, _, _)
\* variant: the try placed inside the loop, a failed row skipped
SaveLoopSkippingFailures(s, i, rows, msgs, plan) ==
    IF i > Len(s.messages)
    THEN [contacts |-> rows, stored |-> msgs, failed |-> plan.fail_at # 0]
    ELSE IF plan.fail_at = i
    THEN SaveLoopSkippingFailures(s, i + 1, rows, msgs, plan)
    ELSE SaveLoopSkippingFailures(s, i + 1, rows,
            Append(msgs,
                [conversation_id |-> s.conversation_id,
                 sender_type |-> IF s.messages[i].role = "ai" THEN "agent"
                                 ELSE s.sender_type,
                 sender_id |-> IF s.messages[i].role = "ai" THEN "booking-agent"
                               ELSE None,
                 sender_name |-> IF s.messages[i].role = "ai" THEN "Booking Agent"
                                 ELSE s.sender_name,
                 content |-> s.messages[i].content,
                 role |-> IF s.messages[i].role = "ai" THEN "assistant"
                          ELSE "user"]),
            plan)

RECURSIVE SaveLoop(_, _, _, _, _)
\* the for loop of save_to_database from message number i on; a failing
\* create_message raises into the except clause, which ends the loop
SaveLoop(s, i, rows, msgs, plan) ==
    IF i > Len(s.messages)
    THEN [contacts |-> rows, stored |-> msgs, failed |-> FALSE]
    ELSE
    LET m == s.messages[i]
    IN  IF IsAI(m)
        THEN IF plan.fail_at = i
             THEN [contacts |-> rows, stored |-> msgs, failed |-> TRUE]
             ELSE SaveLoop(s, i + 1, rows,
                    Append(msgs, MessageRow(s.conversation_id, "agent",
                        "booking-agent", "Booking Agent", m.content,
                        "assistant")),
                    plan)
        ELSE
        LET contact == get_contact_by_email(rows, s.sender_email, plan.lookup)
            rows2 ==
                IF contact = NoContact /\ ~plan.insert
                THEN Append(rows, NewContact(rows, s.sender_email, s.sender_name))
                ELSE rows
            contact_id ==
                IF contact # NoContact THEN contact.id
                ELSE IF plan.insert THEN None
                ELSE ContactId(Len(rows) + 1)
            name == safe_sender_name(contact, s.sender_name, s.sender_email)
        IN  IF plan.fail_at = i
            THEN [contacts |-> rows2, stored |-> msgs, failed |-> TRUE]
            ELSE SaveLoop(s, i + 1, rows2,
                    Append(msgs, MessageRow(s.conversation_id, s.sender_type,
                        contact_id, name, m.content, "user")),
                    plan)

\* variant: the except clause re-raising
AfterSaveRaising(failed) == IF failed THEN "failed" ELSE "END"

\* the except clause logs and falls through to `return state`: the edge to
\* END is followed whether or not a store call raised
AfterSave(failed) == "END"

save_to_database(p) ==
    /\ st[p].pc = "save_to_database"
    /\ \E plan \in FaultPlans :
         LET after == SaveLoop(st[p], 1, contacts, stored, plan)
         IN  /\ contacts' = after.contacts
             /\ stored' = after.stored
             /\ log' = IF after.failed
                       THEN Append(log, LogRecord("Failed to save to database",
                                None, NoExtraction, NoSlots, None))
                       ELSE log
             /\ st' = [st EXCEPT ![p] =
                    [@ EXCEPT !.path = Append(@, "save_to_database"),
                              !.pc = AfterSave(after.failed)]]
    /\ UNCHANGED <<conversations, passes, env, norm, gen, hook>>

-----------------------------------------------------------------------------
(* process_message: the call, and the result built from the final state *)

\* variant: the content of the last message, whoever wrote it
agent_response_last_message(messages) == messages[Len(messages)].content

\* the content of the last AIMessage, "" when the pass appended none
agent_response(messages) ==
    LET assistant_messages == SelectSeq(messages, IsAI)
    IN  IF assistant_messages = <<>> THEN ""
        ELSE assistant_messages[Len(assistant_messages)].content

\* variant: the store error swallowed, the pass run without an id
OnCreateFailureContinue(state0) ==
    [state0 EXCEPT !.error = "create_conversation"]

\* create_conversation re-raises the store error and process_message has no
\* handler for it: the call ends before initial_state is built
OnCreateFailure(state0) ==
    [IdlePass EXCEPT !.error = "create_conversation", !.pc = "failed"]

\* A call without conversation_id creates the conversation first; when the
\* store fails there, the call raises before any state exists.
process_message(p) ==
    /\ st[p].pc \in {"idle", "done", "failed"}
    /\ passes < env.max_passes
    /\ passes' = passes + 1
    /\ \E message_content \in InboundTexts, sender \in env.senders,
          conversation_id \in {None} \cup conversations,
          create_fails \in (IF env.faults THEN BOOLEAN ELSE {FALSE}) :
         LET sender_email == sender.email
             sender_name == sender.name
             sender_type == sender.type
         IN
         IF conversation_id = None
         THEN IF create_fails
              THEN /\ st' = [st EXCEPT ![p] =
                            OnCreateFailure(
                                initial_state(message_content, sender_email,
                                    sender_name, sender_type, None, FALSE))]
                   /\ UNCHANGED conversations
              ELSE LET id == ConversationId(Cardinality(conversations) + 1)
                   IN  /\ conversations' = conversations \cup {id}
                       /\ st' = [st EXCEPT ![p] =
                            initial_state(message_content, sender_email,
                                sender_name, sender_type, id, TRUE)]
         ELSE /\ ~create_fails
              /\ UNCHANGED conversations
              /\ st' = [st EXCEPT ![p] =
                    initial_state(message_content, sender_email, sender_name,
                        sender_type, conversation_id, FALSE)]
    /\ UNCHANGED <<contacts, stored, log, env, norm, gen, hook>>

\* the dict process_message returns once the graph reached END
process_message_return(p) ==
    /\ st[p].pc = "END"
    /\ st' = [st EXCEPT ![p] =
            [@ EXCEPT
                !.result =
                    [response |-> agent_response(st[p].messages),
                     conversation_id |-> st[p].conversation_id,
                     intent |-> st[p].intent,
                     requires_human_approval |-> st[p].requires_human_approval,
                     next_action |-> st[p].next_action],
                !.pc = "done"]]
    /\ UNCHANGED <<conversations, contacts, stored, log, passes, env, norm, gen, hook>>

-----------------------------------------------------------------------------
(* The orchestrator: passes run one after another on an empty store *)

\* the pass of a run that handles one message at a time
Main == "main"

NoNorm == [phase |-> "off", val |-> NullVal, once |-> "", twice |-> ""]

\* no generate call and no webhook request in progress
NoGen ==
    [pc |-> "off", max_retries |-> 0, provider |-> "", fails |-> <<>>,
     attempt |-> 0, attempts |-> 0, slept |-> 0, response |-> None,
     raised |-> None]

NoHook ==
    [pc |-> "off", body |-> "", headers |-> <<>>, secret |-> "",
     status |-> 0, calls |-> <<>>]

\* texts: which answer sets the completion service draws from; roster_up:
\* whether the band_members table of the store can be read
Env(procs, max_passes, senders, wide, faults) ==
    [procs |-> procs, max_passes |-> max_passes, senders |-> senders,
     wide |-> wide, faults |-> faults, texts |-> "few", roster_up |-> TRUE]

WithTexts(e, texts) == [e EXCEPT !.texts = texts]

RosterDown(e) == [e EXCEPT !.roster_up = FALSE]

InitStore ==
    /\ conversations = {}
    /\ contacts = <<>>
    /\ stored = <<>>
    /\ log = <<>>
    /\ passes = 0

Init ==
    /\ env = Env({Main}, MaxPasses, Senders, FALSE, FALSE)
    /\ st = [p \in env.procs |-> IdlePass]
    /\ InitStore
    /\ norm = NoNorm
    /\ gen = NoGen
    /\ hook = NoHook

Next ==
    \/ process_message(Main)
    \/ classify_intent(Main)
    \/ classify_intent_answered(Main)
    \/ handle_venue_inquiry(Main)
    \/ handle_venue_inquiry_extracted(Main)
    \/ handle_venue_inquiry_replied(Main)
    \/ handle_availability_request(Main)
    \/ handle_availability_request_answered(Main)
    \/ handle_negotiation(Main)
    \/ handle_negotiation_answered(Main)
    \/ handle_contract_request(Main)
    \/ handle_contract_request_answered(Main)
    \/ check_approval_needed(Main)
    \/ save_to_database(Main)
    \/ process_message_return(Main)

Spec == Init /\ [][Next]_vars

-----------------------------------------------------------------------------
(* The inquiry path on its own: one pass of a venue sender, with every       *)
(* combination of given and missing slots in the extraction answer           *)

InitSlots ==
    /\ env = Env({Main}, 1, {Venue, Guitarist}, TRUE, FALSE)
    /\ st = [p \in env.procs |-> IdlePass]
    /\ InitStore
    /\ norm = NoNorm
    /\ gen = NoGen
    /\ hook = NoHook

NextSlots ==
    \/ process_message(Main)
    \/ classify_intent(Main)
    \/ classify_intent_answered(Main)
    \/ handle_venue_inquiry(Main)
    \/ handle_venue_inquiry_extracted(Main)
    \/ handle_venue_inquiry_replied(Main)
    \/ check_approval_needed(Main)
    \/ save_to_database(Main)
    \/ process_message_return(Main)

SpecSlots == InitSlots /\ [][NextSlots]_vars

-----------------------------------------------------------------------------
(* The orchestrator when the store and the completion service can fail:     *)
(* any store call and any completion call of a pass may raise                *)

InitFaults ==
    /\ env = Env({Main}, MaxPasses, {Venue, RosterMember}, FALSE, TRUE)
    /\ st = [p \in env.procs |-> IdlePass]
    /\ InitStore
    /\ norm = NoNorm
    /\ gen = NoGen
    /\ hook = NoHook

SpecFaults == InitFaults /\ [][Next]_vars

-----------------------------------------------------------------------------
(* One pass per sender kind, with the band_members table of the store        *)
(* readable or not: roster emails in any letter case and under any declared  *)
(* sender type, and band members the roster does not list                    *)

\* a roster email declared as a venue, under a name of whitespace only
RosterAsVenue == Sender("JOHN@sickdaywithferris.band", " \r", "venue")

InitRoster ==
    /\ \E e \in {Env({Main}, 1, {Venue, RosterMember, RosterAsVenue, Guitarist},
                       FALSE, FALSE)} :
         env \in {e, RosterDown(e)}
    /\ st = [p \in env.procs |-> IdlePass]
    /\ InitStore
    /\ norm = NoNorm
    /\ gen = NoGen
    /\ hook = NoHook

SpecRoster == InitRoster /\ [][Next]_vars

-----------------------------------------------------------------------------
(* One pass with completions that may carry no text *)

InitReplies ==
    /\ env = WithTexts(Env({Main}, 1, {Venue, RosterMember}, FALSE, FALSE),
                       "replies")
    /\ st = [p \in env.procs |-> IdlePass]
    /\ InitStore
    /\ norm = NoNorm
    /\ gen = NoGen
    /\ hook = NoHook

SpecReplies == InitReplies /\ [][Next]_vars

-----------------------------------------------------------------------------
(* One pass of a roster member, the classifier answering with one or two    *)
(* keywords in either order                                                  *)

InitClassify ==
    /\ env = WithTexts(Env({Main}, 1, {RosterMember}, FALSE, FALSE), "pairs")
    /\ st = [p \in env.procs |-> IdlePass]
    /\ InitStore
    /\ norm = NoNorm
    /\ gen = NoGen
    /\ hook = NoHook

SpecClassify == InitClassify /\ [][Next]_vars

-----------------------------------------------------------------------------
(* Two process_message calls in flight at once: the event loop switches      *)
(* between them at the awaits between and inside the stages                   *)

P1 == "p1"

P2 == "p2"

InitConcurrent ==
    /\ env = WithTexts(Env({P1, P2}, MaxPasses, {Venue, RosterMember},
                           FALSE, FALSE), "narrow")
    /\ st = [p \in env.procs |-> IdlePass]
    /\ InitStore
    /\ norm = NoNorm
    /\ gen = NoGen
    /\ hook = NoHook

NextConcurrent ==
    \/ process_message(P1)
    \/ classify_intent(P1)
    \/ classify_intent_answered(P1)
    \/ handle_venue_inquiry(P1)
    \/ handle_venue_inquiry_extracted(P1)
    \/ handle_venue_inquiry_replied(P1)
    \/ handle_availability_request(P1)
    \/ handle_availability_request_answered(P1)
    \/ handle_negotiation(P1)
    \/ handle_negotiation_answered(P1)
    \/ handle_contract_request(P1)
    \/ handle_contract_request_answered(P1)
    \/ check_approval_needed(P1)
    \/ save_to_database(P1)
    \/ process_message_return(P1)
    \/ process_message(P2)
    \/ classify_intent(P2)
    \/ classify_intent_answered(P2)
    \/ handle_venue_inquiry(P2)
    \/ handle_venue_inquiry_extracted(P2)
    \/ handle_venue_inquiry_replied(P2)
    \/ handle_availability_request(P2)
    \/ handle_availability_request_answered(P2)
    \/ handle_negotiation(P2)
    \/ handle_negotiation_answered(P2)
    \/ handle_contract_request(P2)
    \/ handle_contract_request_answered(P2)
    \/ check_approval_needed(P2)
    \/ save_to_database(P2)
    \/ process_message_return(P2)

SpecConcurrent == InitConcurrent /\ [][NextConcurrent]_vars

-----------------------------------------------------------------------------
(* The normalizer on its own: raw values built from short pieces *)

MaxPieces == 2

NormPieces ==
    <<" ", "5", "10", ",", ".", "$", "people", "budget", "hour", "yes", "No",
      "x", "Folks", "set ", "early", "-">>

RECURSIVE Concat(_)
Concat(xs) == IF xs = <<>> THEN "" ELSE xs[1] \o Concat(Tail(xs))

PieceTexts ==
    UNION { { Concat([i \in 1..n |-> NormPieces[f[i]]]) :
                f \in [1..n -> 1..Len(NormPieces)] } : n \in 0..MaxPieces }

\* values the extraction examples of the prompt show
SampleTexts ==
    {"(not specified)", "about 100 folks", "budget is $1,000", "no PA",
     "2 hours early", "discounted rates", "1,500-2,000 residents",
     "two 90-minute sets", "late May or early June", "evening",
     "Sound and staging are provided", "3.5 hour set", " yes ",
     "\r\nyes\r\n", "ÉTÉ: 2 HOURS EARLY"}

NormInputs ==
    {StrVal(s) : s \in PieceTexts \cup SampleTexts}
        \cup {IntVal(n) : n \in {0, 5, 150, -3}}
        \cup {BoolVal(TRUE), BoolVal(FALSE), NullVal}

InitNorm ==
    /\ env = Env({}, 0, {}, FALSE, FALSE)
    /\ st = [p \in env.procs |-> IdlePass]
    /\ InitStore
    /\ \E val \in NormInputs :
         norm = [phase |-> "raw", val |-> val, once |-> "", twice |-> ""]
    /\ gen = NoGen
    /\ hook = NoHook

NormalizeOnce ==
    /\ norm.phase = "raw"
    /\ norm' = [norm EXCEPT !.phase = "once", !.once = normalize(norm.val)]
    /\ UNCHANGED <<st, conversations, contacts, stored, log, passes, env, gen, hook>>

NormalizeAgain ==
    /\ norm.phase = "once"
    /\ norm' = [norm EXCEPT !.phase = "twice",
                            !.twice = normalize(StrVal(norm.once))]
    /\ UNCHANGED <<st, conversations, contacts, stored, log, passes, env, gen, hook>>

NextNorm == NormalizeOnce \/ NormalizeAgain

SpecNorm == InitNorm /\ [][NextNorm]_vars

-----------------------------------------------------------------------------
(* LLMService.generate on its own: one call, its retry loop unrolled one     *)
(* step per stretch between two awaits, for every retry budget and every     *)
(* failure pattern                                                           *)

MaxRetries == 3

\* model names a caller can pass
Models == {"gpt-4-turbo", "o1-mini", "gemini-pro", "llama-3"}

\* str.startswith
StartsWith(s, prefix) ==
    Len(s) >= Len(prefix) /\ SubSeq(s, 1, Len(prefix)) = prefix

_get_provider_from_model(model) ==
    IF StartsWith(model, "gpt-") \/ StartsWith(model, "o1-") THEN "openai"
    ELSE IF StartsWith(model, "gemini-") THEN "gemini"
    ELSE "openai"

\* the content of the LLMResponse that provider call number k returns
ResponseOf(k) == "completion-" \o NatToStr(k)

\* variant: one iteration more than the retry budget
RangeInclusive(max_retries) == max_retries + 1

\* range(max_retries): the number of iterations of the for loop
Range(max_retries) == max_retries

\* attempt == max_retries - 1
IsLastAttempt(attempt, max_retries) == attempt = max_retries - 1

\* variant: a wait that grows by two seconds per attempt
BackoffLinear(attempt) == 2 * attempt

\* the seconds asyncio.sleep waits after a failed attempt
Backoff(attempt) == 2 ^ attempt

\* fails[k]: whether the provider call of iteration k raises (a missing
\* client raises on every call)
InitGenerate ==
    /\ env = Env({}, 0, {}, FALSE, FALSE)
    /\ st = [p \in env.procs |-> IdlePass]
    /\ InitStore
    /\ norm = NoNorm
    /\ hook = NoHook
    /\ \E max_retries \in 0..MaxRetries, model \in Models,
          fails \in [1..(MaxRetries + 1) -> BOOLEAN] :
         gen = [NoGen EXCEPT
                    !.pc = "loop",
                    !.max_retries = max_retries,
                    !.provider = _get_provider_from_model(model),
                    !.fails = fails]

\* the except clause of the loop body: the last attempt raises LLMError, any
\* other one goes on to asyncio.sleep
AttemptFailed(g) ==
    IF IsLastAttempt(g.attempt, g.max_retries)
    THEN [g EXCEPT !.pc = "raised", !.raised = "LLMError"]
    ELSE [g EXCEPT !.pc = "sleeping"]

\* the start of one iteration of the for loop: the provider call is made and
\* generate waits for its answer; an unsupported provider raises at once
generate_attempt ==
    /\ gen.pc = "loop"
    /\ gen.attempt < Range(gen.max_retries)
    /\ LET made == [gen EXCEPT !.attempts = @ + 1]
       IN  IF gen.provider = "openai"
           THEN gen' = [made EXCEPT !.pc = "calling"]
           ELSE gen' = AttemptFailed(made)
    /\ UNCHANGED <<st, conversations, contacts, stored, log, passes, env, norm, hook>>

\* the provider call of iteration k returns a response or raises
generate_answered ==
    /\ gen.pc = "calling"
    /\ LET k == gen.attempt + 1
       IN  IF ~gen.fails[k]
           THEN gen' = [gen EXCEPT !.pc = "returned",
                                   !.response = ResponseOf(k)]
           ELSE gen' = AttemptFailed(gen)
    /\ UNCHANGED <<st, conversations, contacts, stored, log, passes, env, norm, hook>>

\* `await asyncio.sleep(2 ** attempt)` is over: the loop goes on to its next
\* iteration
generate_slept ==
    /\ gen.pc = "sleeping"
    /\ gen' = [gen EXCEPT !.slept = @ + Backoff(gen.attempt),
                          !.attempt = @ + 1,
                          !.pc = "loop"]
    /\ UNCHANGED <<st, conversations, contacts, stored, log, passes, env, norm, hook>>

\* the statement after the loop
generate_exhausted ==
    /\ gen.pc = "loop"
    /\ gen.attempt >= Range(gen.max_retries)
    /\ gen' = [gen EXCEPT !.pc = "raised", !.raised = "LLMError"]
    /\ UNCHANGED <<st, conversations, contacts, stored, log, passes, env, norm, hook>>

NextGenerate ==
    \/ generate_attempt
    \/ generate_answered
    \/ generate_slept
    \/ generate_exhausted

\* the call keeps running: the event loop resumes it after every await
SpecGenerate ==
    InitGenerate /\ [][NextGenerate]_vars /\ WF_vars(NextGenerate)

-----------------------------------------------------------------------------
(* The inbound email webhook: one request, its signature check, and the     *)
(* calls the route makes afterwards                                          *)

RECURSIVE Split(_)
\* str.split(): the maximal runs of non-whitespace characters, in order
Split(s) ==
    LET t == LStrip(s)
    IN  IF t = "" THEN <<>>
        ELSE LET RECURSIVE WordLen(_)
                 WordLen(u) ==
                    IF u = "" \/ Head(u) \in WhiteSpace THEN 0
                    ELSE 1 + WordLen(Tail(u))
                 n == WordLen(t)
             IN  <<SubSeq(t, 1, n)>> \o Split(SubSeq(t, n + 1, Len(t)))

\* the value handed to verify_svix_signature as `signature`: a str, or the
\* dict of all request headers
SigStr(s) == [kind |-> "str", s |-> s, n |-> Len(s)]

SigDict(headers) == [kind |-> "dict", s |-> "", n |-> Len(headers)]

\* base64.b64decode on the secrets a deployment of this model configures;
\* "abc" has incorrect padding and makes b64decode raise
B64Decoded ==
    [s \in {"c2VjcmV0", "a2V5"} |-> IF s = "a2V5" THEN "key" ELSE "secret"]

B64Decodable(secret) == secret \in DOMAIN B64Decoded

\* the characters a string of this module can hold, in code point order:
\* U+0001 to U+00FF without the backquote U+0060
Latin1 ==
    "\t\n\f\r !\"#$%&'()*+,-./0123456789:;<=>?@ABCDEFGHIJKLMNOPQRSTUVWXYZ[\\]^_abcdefghijklmnopqrstuvwxyz{|}~ ¡¢£¤¥¦§¨©ª«¬­®¯°±²³´µ¶·¸¹º»¼½¾¿ÀÁÂÃÄÅÆÇÈÉÊËÌÍÎÏÐÑÒÓÔÕÖ×ØÙÚÛÜÝÞßàáâãäåæçèéêëìíîïðñòóôõö÷øùúûüýþÿ"

\* ord(c)
Ord ==
    [c \in {SubSeq(Latin1, i, i) : i \in 1..Len(Latin1)} |->
        LET i == CHOOSE j \in 1..Len(Latin1) : SubSeq(Latin1, j, j) = c
        IN  IF i < 96 THEN i ELSE i + 1]

\* str.isascii()
IsAscii(s) == \A i \in 1..Len(s) : Ord[SubSeq(s, i, i)] < 128

\* one character as base64 characters: a letter or digit as itself, any
\* other character as "+" and the two hexadecimal digits of its code point
Code(c) ==
    LET n == Ord[c]
        hex == "0123456789abcdef"
    IN  IF n \in 48..57 \/ n \in 65..90 \/ n \in 97..122 THEN c
        ELSE "+" \o SubSeq(hex, (n \div 16) + 1, (n \div 16) + 1)
                 \o SubSeq(hex, (n % 16) + 1, (n % 16) + 1)

RECURSIVE Codes(_)
\* the characters of s one after another, each as base64 characters
Codes(s) ==
    IF s = "" THEN ""
    ELSE IF Len(s) = 1 THEN Code(s)
    ELSE LET h == Len(s) \div 2
         IN  Codes(SubSeq(s, 1, h)) \o Codes(SubSeq(s, h + 1, Len(s)))

\* base64 of the HMAC-SHA256 of the payload under the decoded secret, as an
\* opaque token of base64 characters: equal exactly when key and payload
\* are equal
computed_b64(secret, payload) ==
    "mac/" \o Codes(B64Decoded[secret]) \o "/" \o Codes(payload) \o "="

\* part[3:] of every part that starts with "v1,"
sig_candidates(signature) ==
    LET parts == Split(Replace(signature, ";", " "))
        v1 == SelectSeq(parts, LAMBDA part : StartsWith(part, "v1,"))
    IN  [i \in 1..Len(v1) |-> SubSeq(v1[i], 4, Len(v1[i]))]

RECURSIVE compare_candidates(_, _)
\* the loop over sig_candidates: True at the first candidate equal to the
\* computed token; hmac.compare_digest raises TypeError on a str that is not
\* ASCII, which ends the loop at that candidate with False
compare_candidates(cands, computed) ==
    IF cands = <<>> THEN FALSE
    ELSE IF ~IsAscii(Head(cands)) THEN FALSE
    ELSE IF Head(cands) = computed THEN TRUE
    ELSE compare_candidates(Tail(cands), computed)

\* verify_svix_signature: False for an empty signature or secret, False when
\* anything in the try block raises (a dict has no replace, a secret that is
\* no base64, a candidate that is not ASCII), True when a v1 candidate
\* reached by the loop equals the computed token
verify_svix_signature(payload, signature, secret) ==
    IF signature.n = 0 \/ secret = "" THEN FALSE
    ELSE IF signature.kind # "str" THEN FALSE
    ELSE IF ~B64Decodable(secret) THEN FALSE
    ELSE compare_candidates(sig_candidates(signature.s),
                            computed_b64(secret, payload))

\* settings.webhook_signing_secret or settings.email_webhook_secret
webhook_secret(settings) ==
    IF settings.webhook_signing_secret # ""
    THEN settings.webhook_signing_secret
    ELSE settings.email_webhook_secret

\* json.loads on the bodies below: the JSON texts are the ones in braces
json_loads_ok(body) ==
    body # "" /\ Head(body) = "{" /\ SubSeq(body, Len(body), Len(body)) = "}"

\* if agent_reply and sender_email: the reply email is sent
SendsReply(agent_reply, sender_email) == agent_reply # "" /\ sender_email # ""

\* variant: the result of the signature check ignored
RejectsNothing(verified) == FALSE

\* if not verify_svix_signature(...): raise HTTPException(401)
Rejects(verified) == ~verified

Bodies == {"{\"type\":\"email.received\"}", "{}", "ping"}

SettingsSet ==
    [webhook_signing_secret : {"", "c2VjcmV0"},
     email_webhook_secret : {"", "a2V5", "abc"}]

\* a token no secret of SettingsSet produces
WrongToken == "AAAA"

RightToken(body, secret) ==
    IF B64Decodable(secret) THEN computed_b64(secret, body) ELSE WrongToken

\* values of the Svix-Signature header a sender can attach to body
SignatureHeaders(body, secret) ==
    LET right == RightToken(body, secret)
    IN  {"", "v1," \o right, "v1," \o WrongToken, "v2," \o right, right,
         "v1," \o WrongToken \o " v1," \o right,
         "v1," \o WrongToken \o ";v1," \o right,
         "v2," \o right \o " v1," \o WrongToken,
         "v1,é v1," \o right}

Header(name, value) == [name |-> name, value |-> value]

HostHeader == Header("host", "api.example.com")

\* the header lists of a request: none at all, no signature header, or one
RequestHeaders(body, secret) ==
    {<<>>, <<HostHeader>>}
        \cup {<<HostHeader, Header("svix-signature", v)>> :
                v \in SignatureHeaders(body, secret)}

InitWebhook ==
    /\ env = Env({}, 0, {}, FALSE, FALSE)
    /\ st = [p \in env.procs |-> IdlePass]
    /\ InitStore
    /\ norm = NoNorm
    /\ gen = NoGen
    /\ \E body \in Bodies, settings \in SettingsSet :
         \E headers \in RequestHeaders(body, webhook_secret(settings)) :
            hook = [NoHook EXCEPT
                        !.pc = "received",
                        !.body = body,
                        !.headers = headers,
                        !.secret = webhook_secret(settings)]

\* email_webhook: the body is parsed, the signature checked on
\* dict(request.headers), and only then the agent called and the reply sent.
\* Every exception of the route, the 401 of a rejected signature included,
\* reaches `except Exception` and leaves as status 500.
email_webhook ==
    /\ hook.pc = "received"
    /\ \E agent_reply \in EmptyCompletion \cup ReplyTexts,
          sender_email \in {"", Venue.email} :
         LET verified ==
                verify_svix_signature(hook.body, SigDict(hook.headers),
                                      hook.secret)
         IN  IF ~json_loads_ok(hook.body) \/ Rejects(verified)
             THEN hook' = [hook EXCEPT !.pc = "handled", !.status = 500]
             ELSE hook' = [hook EXCEPT
                    !.pc = "handled",
                    !.status = 200,
                    !.calls = <<"process_message">>
                        \o (IF SendsReply(agent_reply, sender_email)
                            THEN <<"send_email">> ELSE <<>>)]
    /\ UNCHANGED <<st, conversations, contacts, stored, log, passes, env, norm, gen>>

NextWebhook == email_webhook

SpecWebhook == InitWebhook /\ [][NextWebhook]_vars

-----------------------------------------------------------------------------
(* Properties *)

Passes == DOMAIN st

\* node ran in pass p
Ran(p, node) == \E i \in 1..Len(st[p].path) : st[p].path[i] = node

\* process_message of pass p has returned
Returned(p) == st[p].pc = "done"

\* the text contains "accept" or "agree" in any letter case
MentionsAcceptOrAgree(text) ==
    \E w \in {"accept", "agree"} :
        \E i \in 1..(Len(text) - Len(w) + 1) :
            Lower(SubSeq(text, i, i + Len(w) - 1)) = w

\* the text of the agent turn the pass appended
AgentTurn(p) == st[p].messages[Len(st[p].messages)].content

\* C1: a pass that ran handle_contract_request holds, from the handler on and
\* in the result it returns, requires_human_approval = TRUE and
\* next_action = "contract_approval_needed", whatever the draft says.
C1_ContractAlwaysGated ==
    \A p \in Passes :
        Ran(p, "handle_contract_request") =>
            /\ st[p].requires_human_approval
            /\ st[p].next_action = "contract_approval_needed"
            /\ Returned(p) =>
                /\ st[p].result.requires_human_approval
                /\ st[p].result.next_action = "contract_approval_needed"

\* a contract pass has returned whose draft mentions neither accept nor agree
C1_Witness ==
    \E p \in Passes :
        /\ Returned(p)
        /\ Ran(p, "handle_contract_request")
        /\ ~MentionsAcceptOrAgree(st[p].result.response)

\* C2: a pass that ran handle_negotiation returns approval = TRUE and
\* next_action = "pending_approval" when the generated reply contains
\* "accept" or "agree" in any letter case, and approval = FALSE and
\* next_action = None when it contains neither.
C2_NegotiationDecision ==
    \A p \in Passes :
        (Returned(p) /\ Ran(p, "handle_negotiation")) =>
            IF MentionsAcceptOrAgree(AgentTurn(p))
            THEN /\ st[p].result.requires_human_approval
                 /\ st[p].result.next_action = "pending_approval"
            ELSE /\ ~st[p].result.requires_human_approval
                 /\ st[p].result.next_action = None

\* a negotiation pass has returned whose reply says AGREE in capitals
C2_Witness ==
    \E p \in Passes :
        /\ Returned(p)
        /\ Ran(p, "handle_negotiation")
        /\ MentionsAcceptOrAgree(AgentTurn(p))
        /\ ~Contains(AgentTurn(p), "agree")
        /\ ~Contains(AgentTurn(p), "accept")
        /\ st[p].result.next_action = "pending_approval"

\* C3: in every state of a pass, and in the result it returns, a next_action
\* that is set comes with requires_human_approval = TRUE.
C3_NextActionImpliesApproval ==
    \A p \in Passes :
        /\ st[p].next_action # None => st[p].requires_human_approval
        /\ st[p].result.next_action # None =>
                st[p].result.requires_human_approval

\* a pass is between its handler and its end with a next_action set
C3_Witness ==
    \E p \in Passes :
        /\ st[p].pc = "check_approval_needed"
        /\ st[p].next_action = "pending_approval"

\* C4: on the first inbound turn of a conversation (the call created it) from
\* a sender whose email is not in the roster, classify_intent leaves
\* intent = "venue_inquiry" whatever the classifier answered, and the
\* handler that runs is handle_venue_inquiry.
C4_FirstTurnForcedToInquiry ==
    \A p \in Passes :
        (st[p].created /\ ~InRoster(st[p].sender_email)
            /\ Ran(p, "classify_intent")) =>
            /\ Len(st[p].path) = 1 =>
                /\ st[p].intent = "venue_inquiry"
                /\ st[p].pc = "handle_venue_inquiry"
            /\ Len(st[p].path) > 1 => st[p].path[2] = "handle_venue_inquiry"

\* the inquiry handler ran on a first turn the classifier took for a
\* contract request
C4_Witness ==
    \E p \in Passes :
        /\ st[p].created
        /\ ~InRoster(st[p].sender_email)
        /\ st[p].classified = "contract_request"
        /\ Ran(p, "handle_venue_inquiry")

\* C5: on a later inbound message of an existing conversation (the call was
\* given its id) from a sender outside the roster, classify_intent leaves
\* the intent derived from the classifier's answer.
C5_LaterTurnKeepsClassifiedIntent ==
    \A p \in Passes :
        (~st[p].created /\ st[p].conversation_id # None
            /\ ~InRoster(st[p].sender_email)
            /\ st[p].path = <<"classify_intent">>) =>
            st[p].intent = st[p].classified

\* C6: in an ongoing conversation, the venue's message that accepts the terms
\* and asks for the contract returns approval = TRUE with
\* next_action = "contract_approval_needed" when classified as a contract
\* request, and with next_action = "pending_approval" when classified as
\* negotiation and the reply contains "accept" or "agree".
C6_AcceptedOfferNeedsApproval ==
    \A p \in Passes :
        (Returned(p) /\ ~st[p].created /\ st[p].sender_type = "venue"
            /\ st[p].messages[1].content = ContractAsk) =>
            /\ st[p].classified = "contract_request" =>
                /\ st[p].result.requires_human_approval
                /\ st[p].result.next_action = "contract_approval_needed"
            /\ (st[p].classified = "negotiation"
                    /\ MentionsAcceptOrAgree(st[p].result.response)) =>
                /\ st[p].result.requires_human_approval
                /\ st[p].result.next_action = "pending_approval"

\* the names of the six slots, in the order of the follow-up
SlotNames ==
    <<"requested dates", "event type", "expected attendance", "payment offer",
      "PA system availability", "load-in time">>

\* the names of the slots that are "(not specified)", in that order
UnspecifiedNames(slots) ==
    LET idx == SelectSeq(<<1, 2, 3, 4, 5, 6>>,
                         LAMBDA i : slots[SlotKeys[i]] = NotSpecified)
    IN  [j \in 1..Len(idx) |-> SlotNames[idx[j]]]

\* C7: when at least one of the six slots is "(not specified)", the inquiry
\* handler asks for a reply whose follow-up lists exactly the names of the
\* unspecified slots, in the fixed order, joined by ", " and ended by ".".
C7_FollowUpListsUnspecified ==
    \A p \in Passes :
        (Ran(p, "handle_venue_inquiry")
            /\ \E k \in SlotKeySet : st[p].slots[k] = NotSpecified) =>
            \E i \in 1..Len(st[p].calls) :
                /\ st[p].calls[i].purpose = "inquiry_reply"
                /\ st[p].calls[i].arg =
                    "To proceed, could you please provide the following details: "
                        \o Join(", ", UnspecifiedNames(st[p].slots)) \o "."

\* C8: when none of the six slots is "(not specified)", handle_venue_inquiry
\* sets intent = "availability_request", appends no agent turn and makes no
\* reply-generation call.
C8_CompleteInquiryHandsOver ==
    \A p \in Passes :
        (Ran(p, "handle_venue_inquiry") /\ st[p].pc # "failed"
            /\ \A k \in SlotKeySet : st[p].slots[k] # NotSpecified) =>
            /\ st[p].intent = "availability_request"
            /\ SelectSeq(st[p].messages, IsAI) = <<>>
            /\ \A i \in 1..Len(st[p].calls) :
                    st[p].calls[i].purpose # "inquiry_reply"
            /\ Returned(p) => st[p].result.response = ""

\* an inquiry pass has returned with all six slots given, one of them
\* normalized from a phrase
C8_Witness ==
    \E p \in Passes :
        /\ Returned(p)
        /\ Ran(p, "handle_venue_inquiry")
        /\ \A k \in SlotKeySet : st[p].slots[k] # NotSpecified
        /\ st[p].slots["expected_attendance"] = "100"
        /\ st[p].slots["requested_dates"] = "late May"

\* C9: normalize is idempotent: normalizing the result again gives the result.
C9_NormalizeIdempotent ==
    norm.phase = "twice" => norm.twice = norm.once

InquiryEvents == {"venue_inquiry_response", "venue_inquiry_complete_details"}

\* C10: when an earlier inquiry pass of a conversation held a value for a slot
\* and the extraction of a later pass of that conversation gives nothing for
\* it, the later pass still holds the earlier value.
C10_SlotsPersistAcrossTurns ==
    \A i, j \in 1..Len(log) :
        (i < j /\ log[i].event \in InquiryEvents /\ log[j].event \in InquiryEvents
            /\ log[i].conversation_id = log[j].conversation_id) =>
            \A k \in SlotKeySet :
                (log[i].slots[k] # NotSpecified
                    /\ normalize(Extracted(log[j].raw, k)) = NotSpecified) =>
                    log[j].slots[k] = log[i].slots[k]

Handlers ==
    {"handle_venue_inquiry", "handle_availability_request",
     "handle_negotiation", "handle_contract_request"}

\* the number of times node occurs in the path of pass p
Visits(p, node) ==
    Cardinality({i \in 1..Len(st[p].path) : st[p].path[i] = node})

\* C11: the stages a pass has visited are always the beginning of
\* classify_intent, one handler, check_approval_needed, save_to_database; no
\* stage is visited twice, one classification is requested per pass, and a
\* pass that reached the end or returned visited all four.
C11_OnePassInStageOrder ==
    \A p \in Passes :
        LET path == st[p].path
        IN  /\ Len(path) <= 4
            /\ Len(path) >= 1 => path[1] = "classify_intent"
            /\ Len(path) >= 2 => path[2] \in Handlers
            /\ Len(path) >= 3 => path[3] = "check_approval_needed"
            /\ Len(path) >= 4 => path[4] = "save_to_database"
            /\ \A node \in Handlers \cup {"classify_intent",
                    "check_approval_needed", "save_to_database"} :
                    Visits(p, node) <= 1
            /\ Cardinality({i \in 1..Len(st[p].calls) :
                    st[p].calls[i].purpose = "classify"}) <= 1
            /\ st[p].pc \in {"END", "done"} => Len(path) = 4

\* a second pass of the run has returned after the four stages, the
\* negotiation handler among them
C11_Witness ==
    \E p \in Passes :
        /\ Returned(p)
        /\ passes = 2
        /\ st[p].path = <<"classify_intent", "handle_negotiation",
                          "check_approval_needed", "save_to_database">>

\* the handler the graph wires to an intent
HandlerFor(intent) ==
    IF intent = "availability_request" THEN "handle_availability_request"
    ELSE IF intent = "negotiation" THEN "handle_negotiation"
    ELSE IF intent = "contract_request" THEN "handle_contract_request"
    ELSE "handle_venue_inquiry"

\* C12: the handler of a pass is the one wired to the intent classify_intent
\* left (the inquiry handler for venue_inquiry and for general), and it is the
\* only handler of the pass even when it rewrote the intent.
C12_HandlerFollowsClassifiedIntent ==
    \A p \in Passes :
        /\ st[p].routed \in {None, "venue_inquiry", "availability_request",
                              "negotiation", "contract_request", "general"}
        /\ Len(st[p].path) >= 2 =>
            /\ st[p].path[2] = HandlerFor(st[p].routed)
            /\ \A i \in 1..Len(st[p].path) :
                    st[p].path[i] \in Handlers => i = 2

\* an inquiry pass handed over to availability_request and returned without
\* the availability handler having run
C12_Witness ==
    \E p \in Passes :
        /\ Returned(p)
        /\ st[p].routed = "venue_inquiry"
        /\ st[p].intent = "availability_request"
        /\ ~Ran(p, "handle_availability_request")

\* the last record of the log reports a failed save
SaveFailureLogged(records) ==
    records # <<>> /\ records[Len(records)].event = "Failed to save to database"

\* the result dict as the state before persistence determines it
ResultOf(s) ==
    [response |-> IF \E i \in 1..Len(s.messages) : IsAI(s.messages[i])
                  THEN s.messages[Len(s.messages)].content ELSE "",
     conversation_id |-> s.conversation_id,
     intent |-> s.intent,
     requires_human_approval |-> s.requires_human_approval,
     next_action |-> s.next_action]

\* C13: a save_to_database step in which create_message failed leaves the
\* pass at the end of the graph with its messages, intent, approval flag and
\* next action untouched, and the return that follows hands the caller the
\* result built from exactly those values.
C13_SaveFailureIsSwallowed ==
    [][\A p \in Passes :
        /\ (st[p].pc = "save_to_database" /\ Len(log') > Len(log)
                /\ SaveFailureLogged(log')) =>
            /\ st'[p].pc = "END"
            /\ st'[p].error = None
            /\ ResultOf(st'[p]) = ResultOf(st[p])
        /\ (st[p].pc = "END" /\ SaveFailureLogged(log)
                /\ st'[p] # st[p]) =>
            /\ st'[p].pc = "done"
            /\ st'[p].result = ResultOf(st[p])
      ]_vars

\* a pass whose save failed has returned a reply that needs approval
C13_Witness ==
    \E p \in Passes :
        /\ Returned(p)
        /\ SaveFailureLogged(log)
        /\ st[p].result.response # ""
        /\ st[p].result.requires_human_approval
        /\ st[p].result.next_action = "pending_approval"

\* C14: no two rows of the contacts table carry the same email.
C14_OneContactPerEmail ==
    \A i, j \in 1..Len(contacts) :
        contacts[i].email = contacts[j].email => i = j

\* C15: a process_message call whose create_conversation failed ends as a
\* failure with no stage visited and no completion call made, and the step
\* leaves the conversations, the contacts and the stored turns as they were.
C15_CreateFailureRaisesBeforeStages ==
    [][\A p \in Passes :
        st'[p].error = "create_conversation" =>
            /\ st'[p].pc = "failed"
            /\ st'[p].path = <<>>
            /\ st'[p].calls = <<>>
            /\ st'[p].result = NoResult
            /\ stored' = stored
            /\ contacts' = contacts
            /\ conversations' = conversations
      ]_vars

\* the second call of a run failed in create_conversation while the turns of
\* the first are in the store
C15_Witness ==
    \E p \in Passes :
        /\ st[p].error = "create_conversation"
        /\ st[p].pc = "failed"
        /\ passes = 2
        /\ stored # <<>>

\* C16: no inbound turn is stored with an absent sender id (a failed contact
\* creation fails the pass instead).
C16_ContactFailureIsFatal ==
    \A i \in 1..Len(stored) :
        stored[i].role = "user" => stored[i].sender_id # None

StageNodes == Handlers \cup {"classify_intent"}

\* C18: once a stage of a pass has raised, the pass is a failure: that stage
\* is the last one visited and was visited once, no stage was visited twice,
\* neither the approval check nor the persister ran, and no result was
\* returned.
C18_FailedStageEndsThePass ==
    \A p \in Passes :
        st[p].error \in StageNodes =>
            /\ st[p].pc = "failed"
            /\ st[p].path # <<>>
            /\ st[p].path[Len(st[p].path)] = st[p].error
            /\ \A node \in StageNodes : Visits(p, node) <= 1
            /\ ~Ran(p, "check_approval_needed")
            /\ ~Ran(p, "save_to_database")
            /\ st[p].result = NoResult

\* the completion call of the negotiation handler raised after the
\* constraints were loaded, in the second pass of a run
C18_Witness ==
    \E p \in Passes :
        /\ st[p].error = "handle_negotiation"
        /\ st[p].pc = "failed"
        /\ st[p].booking_constraints # <<>>
        /\ st[p].path = <<"classify_intent", "handle_negotiation">>
        /\ passes = 2

\* C19: a pass that ran the availability handler holds, from the handler on
\* and in the result it returns, requires_human_approval = FALSE and no
\* next_action, and its messages are the inbound turn and one agent turn.
C19_AvailabilityNeverGated ==
    \A p \in Passes :
        Ran(p, "handle_availability_request") =>
            /\ ~st[p].requires_human_approval
            /\ st[p].next_action = None
            /\ Len(SelectSeq(st[p].messages, IsAI)) = 1
            /\ Len(st[p].messages) = 2
            /\ Returned(p) =>
                /\ ~st[p].result.requires_human_approval
                /\ st[p].result.next_action = None
                /\ st[p].result.response = AgentTurn(p)

\* an availability pass has returned whose reply says accept or agree
C19_Witness ==
    \E p \in Passes :
        /\ Returned(p)
        /\ Ran(p, "handle_availability_request")
        /\ MentionsAcceptOrAgree(st[p].result.response)

\* the iterations of a generate call whose provider call succeeds
Successes(g) ==
    {k \in 1..g.max_retries : g.provider = "openai" /\ ~g.fails[k]}

GenerateEnded == gen.pc \in {"returned", "raised"}

\* C17: a generate call never makes more attempts than max_retries; when it
\* returns, it returns the response of the first attempt that succeeded; when
\* it raises, every attempt failed, the error is an LLMError and there is no
\* response; and every call ends, by returning or by raising.
C17_GenerateTerminates ==
    /\ [](gen.pc # "off" =>
            /\ gen.attempts <= gen.max_retries
            /\ gen.pc = "returned" =>
                /\ Successes(gen) # {}
                /\ \A k \in Successes(gen) : gen.attempts <= k
                /\ gen.response = ResponseOf(gen.attempts)
                /\ gen.raised = None
            /\ gen.pc = "raised" =>
                /\ Successes(gen) = {}
                /\ gen.raised = "LLMError"
                /\ gen.response = None
            /\ gen.pc \in {"loop", "calling", "sleeping"} =>
                (gen.response = None /\ gen.raised = None))
    /\ <>GenerateEnded

\* a call with a budget of three attempts has raised after all three failed
\* and after waiting 1 + 2 seconds between them
C17_Witness ==
    /\ gen.pc = "raised"
    /\ gen.max_retries = 3
    /\ gen.attempts = 3
    /\ gen.slept = 3
    /\ gen.provider = "openai"

RECURSIVE HeaderValue(_, _)
\* the value of the named header, None when the request has none
HeaderValue(headers, name) ==
    IF headers = <<>> THEN None
    ELSE IF headers[1].name = name THEN headers[1].value
    ELSE HeaderValue(Tail(headers), name)

\* the request carries a signature header with a v1 token that equals the
\* token computed from the body and the configured secret
SignatureMatches(h) ==
    LET value == HeaderValue(h.headers, "svix-signature")
    IN  /\ value # None
        /\ h.secret # ""
        /\ B64Decodable(h.secret)
        /\ \E i \in 1..Len(value), j \in 1..Len(value) :
              /\ i <= j
              /\ SubSeq(value, i, j) = "v1," \o computed_b64(h.secret, h.body)
              /\ (i = 1 \/ SubSeq(value, i - 1, i - 1) \in {" ", ";"})
              /\ (j = Len(value) \/ SubSeq(value, j + 1, j + 1) \in {" ", ";"})

\* C20: a handled webhook request whose signature does not match caused no
\* process_message call and no reply email, and was not answered with 200.
C20_UnsignedRequestNeverReachesCore ==
    (hook.pc = "handled" /\ ~SignatureMatches(hook)) =>
        /\ \A i \in 1..Len(hook.calls) :
                hook.calls[i] \notin {"process_message", "send_email"}
        /\ hook.status # 200

\* a JSON request signed with a v1 token that is not the computed one, under
\* a configured secret, was handled and rejected
C20_Witness ==
    /\ hook.pc = "handled"
    /\ json_loads_ok(hook.body)
    /\ hook.secret = "c2VjcmV0"
    /\ HeaderValue(hook.headers, "svix-signature") = "v1," \o WrongToken
    /\ hook.calls = <<>>
    /\ hook.status = 500

\* the rows of the messages table under a conversation id, in order
TurnsOf(conversation_id) ==
    SelectSeq(stored, LAMBDA row : row.conversation_id = conversation_id)

\* a row without the id the store gave the sender's contact
WithoutSenderId(row) == [row EXCEPT !.sender_id = None]

\* the rows a pass stores when it runs alone on an empty store: the inbound
\* turn under the sender name given with the message (the local part of the
\* email when none was given), then the agent turn if there is one
AloneTurns(s) ==
    [i \in 1..Len(s.messages) |->
        IF s.messages[i].role = "human"
        THEN [conversation_id |-> s.conversation_id,
              sender_type |-> s.sender_type, sender_id |-> None,
              sender_name |-> IF s.sender_name # "" THEN s.sender_name
                              ELSE BeforeAt(s.sender_email),
              content |-> s.messages[i].content, role |-> "user"]
        ELSE [conversation_id |-> s.conversation_id, sender_type |-> "agent",
              sender_id |-> None, sender_name |-> "Booking Agent",
              content |-> s.messages[i].content, role |-> "assistant"]]

\* each of the two calls ran one pass, on conversations of their own
OnDistinctConversations ==
    /\ passes = 2
    /\ \A p \in Passes : st[p].pc # "idle"
    /\ \A p, q \in Passes :
            p # q => st[p].conversation_id # st[q].conversation_id

\* C21: when two passes ran on distinct conversations, under any
\* interleaving, a pass that has returned stored under its conversation id
\* the turns it stores when it runs alone.
C21_DistinctConversationsDoNotInterfere ==
    \A p \in Passes :
        (OnDistinctConversations /\ Returned(p)) =>
            LET turns == TurnsOf(st[p].conversation_id)
            IN  [i \in 1..Len(turns) |-> WithoutSenderId(turns[i])]
                    = AloneTurns(st[p])

\* the handler of pass p has written and the pass has not returned yet
WrittenNotReturned(p) ==
    st[p].pc \in {"check_approval_needed", "save_to_database", "END"}

\* C22, as claimed: two passes in flight on one conversation write one Slot
\* Set and one approval flag, the last write winning: while both have written
\* and neither has returned, the slot values, the approval flag and the next
\* action the two are about to return are the same, those of the last writer.
C22_LastWriteWins ==
    \A p, q \in Passes :
        (p # q /\ WrittenNotReturned(p) /\ WrittenNotReturned(q)
            /\ st[p].conversation_id = st[q].conversation_id) =>
            /\ st[p].slots = st[q].slots
            /\ st[p].requires_human_approval = st[q].requires_human_approval
            /\ st[p].next_action = st[q].next_action

\* the fields of a stored turn: none of them a slot or an approval flag
RowFields ==
    {"conversation_id", "sender_type", "sender_id", "sender_name", "content",
     "role"}

\* C22 (amended): no pass overwrites or changes the slot values, the approval
\* flag or the next action of another pass, on the same conversation or not.
\* A step changes the state of one pass at most; from the return of its
\* handler on, the slot values, approval flag and next action of a pass stay
\* what the handler left, and they are what the call returns; and of a pass
\* the store keeps message rows only, which no later step changes.
C22_NoPassOverwritesAnother ==
    /\ [](\A i \in 1..Len(stored) : DOMAIN stored[i] = RowFields)
    /\ [][/\ \A p, q \in Passes :
                (p # q /\ st'[q] # st[q]) => st'[p] = st[p]
          /\ \A p \in Passes :
                WrittenNotReturned(p) =>
                    /\ st'[p].slots = st[p].slots
                    /\ st'[p].requires_human_approval
                            = st[p].requires_human_approval
                    /\ st'[p].next_action = st[p].next_action
                    /\ st'[p].pc = "done" =>
                        /\ st'[p].result.requires_human_approval
                                = st[p].requires_human_approval
                        /\ st'[p].result.next_action = st[p].next_action
          /\ Len(stored') >= Len(stored)
          /\ SubSeq(stored', 1, Len(stored)) = stored
         ]_vars

\* two passes are in flight on one conversation, both handlers have returned,
\* and one pass holds the approval flag set while the other holds it unset
C22_Witness ==
    \E p, q \in Passes :
        /\ p # q
        /\ WrittenNotReturned(p) /\ WrittenNotReturned(q)
        /\ st[p].conversation_id = st[q].conversation_id
        /\ st[p].requires_human_approval
        /\ ~st[q].requires_human_approval

\* what a call was given and what the completion service answered in it
SameInputs(s, t) ==
    /\ s.messages[1] = t.messages[1]
    /\ s.sender_email = t.sender_email
    /\ s.sender_name = t.sender_name
    /\ s.sender_type = t.sender_type
    /\ s.heard = t.heard
    /\ s.booking_constraints = t.booking_constraints

\* C23: two passes that were given the same message and sender and got the
\* same answers from the completion service and the store took the same path
\* and returned the same intent, approval flag, next action and response.
C23_SameInputsSameOutcome ==
    \A p, q \in Passes :
        (Returned(p) /\ Returned(q) /\ SameInputs(st[p], st[q])) =>
            /\ st[p].path = st[q].path
            /\ st[p].result.intent = st[q].result.intent
            /\ st[p].result.requires_human_approval
                    = st[q].result.requires_human_approval
            /\ st[p].result.next_action = st[q].result.next_action
            /\ st[p].result.response = st[q].result.response

\* two calls with the same inputs and answers have both returned, one on a
\* new conversation and one on that conversation, by way of the inquiry
\* handler and with a reply
C23_Witness ==
    /\ Returned(P1)
    /\ Returned(P2)
    /\ SameInputs(st[P1], st[P2])
    /\ st[P1].conversation_id = st[P2].conversation_id
    /\ st[P1].created # st[P2].created
    /\ st[P1].sender_email = "sarah@thebasement.com"
    /\ st[P1].heard.classifier = " Negotiation\n"
    /\ st[P1].result.response # ""

-----------------------------------------------------------------------------
(* the roster *)

\* the pass classified its first inbound turn
ClassifiedFirstTurn(p) ==
    /\ Ran(p, "classify_intent")
    /\ st[p].classified # None
    /\ Len(SelectSeq(st[p].messages, IsHuman)) = 1

\* C24: when the roster cannot be fetched from the store the pass does not
\* fail and the roster counts as empty: the first inbound turn is routed as
\* venue_inquiry, a roster member's turn included.
C24_RosterFailureForcesVenueInquiry ==
    \A p \in Passes :
        (~env.roster_up /\ ClassifiedFirstTurn(p)) =>
            /\ st[p].error = None
            /\ st[p].routed = "venue_inquiry"

\* the senders of the runs whose email is on the roster, in any letter case
RosterSenders == {RosterMember, RosterAsVenue}

\* C26: the override looks at the email only. A first inbound turn from an
\* email on the roster, in any letter case and under any sender_type, keeps
\* the intent of the classifier's answer; a first inbound turn from any other
\* email, a declared band_member included, is routed as venue_inquiry.
C26_OverrideKeyedOnEmailOnly ==
    \A p \in Passes :
        ClassifiedFirstTurn(p) =>
            IF \E m \in RosterSenders : m.email = st[p].sender_email
            THEN st[p].routed = st[p].classified
            ELSE st[p].routed = "venue_inquiry"

\* a roster email in capitals declared as a venue kept the negotiation intent,
\* and a declared band member off the roster was forced to venue_inquiry
C26_Witness ==
    \E p \in Passes :
        /\ Returned(p)
        /\ ClassifiedFirstTurn(p)
        /\ \/ /\ st[p].sender_email = RosterAsVenue.email
              /\ st[p].sender_type = "venue"
              /\ st[p].routed = "negotiation"
           \/ /\ st[p].sender_email = Guitarist.email
              /\ st[p].sender_type = "band_member"
              /\ st[p].classified = "negotiation"
              /\ st[p].routed = "venue_inquiry"

-----------------------------------------------------------------------------
(* the keyword groups *)

Intents ==
    {"venue_inquiry", "availability_request", "negotiation",
     "contract_request", "general"}

\* the keyword groups in priority order: inquiry, availability, negotiation,
\* contract
Groups ==
    <<[intent |-> "venue_inquiry", terms |-> {"venue", "booking"}],
      [intent |-> "availability_request", terms |-> {"availability", "available"}],
      [intent |-> "negotiation", terms |-> {"negotiat", "price", "offer"}],
      [intent |-> "contract_request", terms |-> {"contract"}]>>

\* the text holds a term of group g, in any letter case
Matches(text, g) ==
    \E w \in Groups[g].terms :
        \E i \in 1..(Len(text) - Len(w) + 1) :
            Lower(SubSeq(text, i, i + Len(w) - 1)) = w

\* the intent of the first matching group, general when none matches
GroupIntent(text) ==
    IF \E g \in 1..Len(Groups) : Matches(text, g)
    THEN Groups[CHOOSE g \in 1..Len(Groups) :
                    /\ Matches(text, g)
                    /\ \A h \in 1..(g - 1) : ~Matches(text, h)].intent
    ELSE "general"

\* C25: the intent classify_intent derives from the classifier's answer is
\* one of the five intents: that of the first keyword group, in the order
\* inquiry, availability, negotiation, contract, of which the answer holds a
\* term, and general when it holds none.
C25_FirstMatchingGroupWins ==
    \A p \in Passes :
        st[p].heard.classifier # None =>
            /\ st[p].classified \in Intents
            /\ st[p].classified = GroupIntent(st[p].heard.classifier)

\* an answer with a contract term and an inquiry term was classified as an
\* inquiry, and one with a contract term and a negotiation term as negotiation
C25_Witness ==
    \E p \in Passes :
        /\ Returned(p)
        /\ \/ /\ st[p].heard.classifier = "contract venue"
              /\ st[p].classified = "venue_inquiry"
           \/ /\ st[p].heard.classifier = "contract price"
              /\ st[p].classified = "negotiation"

-----------------------------------------------------------------------------
(* the display name of a stored inbound turn *)

\* the name the contact row holds: its first and last name
StoredName(contact) ==
    Strip(OrEmpty(contact.first_name) \o " " \o OrEmpty(contact.last_name))

\* the contact's stored name, else the provided sender name, else the local
\* part of the email
DisplayName(contact, sender_name, sender_email) ==
    IF contact # NoContact /\ StoredName(contact) # "" THEN StoredName(contact)
    ELSE IF sender_name # "" THEN sender_name
    ELSE BeforeAt(sender_email)

\* the inbound turn stored last
LastUserRow ==
    stored[CHOOSE i \in 1..Len(stored) :
              /\ stored[i].role = "user"
              /\ \A j \in (i + 1)..Len(stored) : stored[j].role # "user"]

\* C27: the inbound turn a pass has stored carries the contact's stored name
\* when it has one, else the sender name provided with the message when that
\* is not empty, else the local part of the sender email.
C27_DisplayNameByPriority ==
    \A p \in Passes :
        (st[p].pc \in {"END", "done"} /\ ~SaveFailureLogged(log)) =>
            LastUserRow.sender_name =
                DisplayName(get_contact_by_email(contacts, st[p].sender_email, FALSE),
                            st[p].sender_name, st[p].sender_email)

-----------------------------------------------------------------------------
(* an extraction answer that is not JSON *)

\* the inquiry records of the conversation of record j written before it
EarlierInquiries(j) ==
    {i \in 1..(j - 1) :
        /\ log[i].event \in InquiryEvents
        /\ log[i].conversation_id = log[j].conversation_id}

\* the value the conversation held for slot k before record j, the
\* unspecified sentinel when no earlier inquiry pass of it exists
PriorValue(j, k) ==
    IF EarlierInquiries(j) = {} THEN NotSpecified
    ELSE log[CHOOSE i \in EarlierInquiries(j) :
                \A h \in EarlierInquiries(j) : h <= i].slots[k]

\* C28: an extraction answer that cannot be parsed does not fail the pass:
\* the handler reaches the missing-field decision with the extraction taken
\* as empty, every slot holding its prior value, the unspecified sentinel
\* when the conversation has none.
C28_UnparsedExtractionKeepsPriorValues ==
    /\ \A p \in Passes :
          (Ran(p, "handle_venue_inquiry")
              /\ st[p].heard.extraction.kind = "invalid") =>
              /\ st[p].error = None
              /\ log # <<>>
              /\ log[Len(log)].event \in InquiryEvents
              /\ log[Len(log)].raw = st[p].heard.extraction
    /\ \A j \in 1..Len(log) :
          (log[j].event \in InquiryEvents /\ log[j].raw.kind = "invalid") =>
              \A k \in SlotKeySet : log[j].slots[k] = PriorValue(j, k)

-----------------------------------------------------------------------------
(* the rows one pass stores *)

ResolvedContact(rows, email) ==
    rows[CHOOSE i \in 1..Len(rows) : rows[i].email = email]

\* row is the stored inbound turn of pass state s
IsInboundRow(row, s, rows) ==
    /\ row.role = "user"
    /\ row.conversation_id = s.conversation_id
    /\ row.sender_type = s.sender_type
    /\ row.content = s.messages[1].content
    /\ \E i \in 1..Len(rows) : rows[i].email = s.sender_email
    /\ row.sender_id = ResolvedContact(rows, s.sender_email).id

\* row is the stored agent turn with that content of pass state s
IsAgentRow(row, s, content) ==
    /\ row.role = "assistant"
    /\ row.conversation_id = s.conversation_id
    /\ row.sender_type = "agent"
    /\ row.sender_id = "booking-agent"
    /\ row.sender_name = "Booking Agent"
    /\ row.content = content

\* C29: the persister of a pass adds to the store, after the rows it held and
\* without touching them, one user row for the inbound message, its sender
\* id the id of the contact with the sender's email, and then one assistant
\* row per agent turn of the pass under the identity booking-agent /
\* Booking Agent; nothing else is added.
C29_PassStoresItsOwnTurnsOnce ==
    [][\A p \in Passes :
        (st[p].pc = "save_to_database" /\ st'[p].pc = "END") =>
            LET s == st[p]
                turns == SelectSeq(s.messages, IsAI)
                n == Len(stored)
            IN  /\ Len(stored') = n + 1 + Len(turns)
                /\ SubSeq(stored', 1, n) = stored
                /\ IsInboundRow(stored'[n + 1], s, contacts')
                /\ \A i \in 1..Len(turns) :
                      IsAgentRow(stored'[n + 1 + i], s, turns[i].content)
                /\ Cardinality({i \in (n + 1)..Len(stored') :
                                    stored'[i].role = "user"}) = 1]_vars

\* two passes of one conversation have been stored: user, assistant, user,
\* assistant, the rows of the first pass once
C29_Witness ==
    \E p \in Passes :
        /\ Returned(p)
        /\ Len(stored) = 4
        /\ \A i \in 1..4 : stored[i].conversation_id = st[p].conversation_id
        /\ stored[1].role = "user" /\ stored[2].role = "assistant"
        /\ stored[3].role = "user" /\ stored[4].role = "assistant"
        /\ stored[3].sender_id = stored[1].sender_id
        /\ stored[4].sender_id = "booking-agent"

-----------------------------------------------------------------------------
(* the approval gate *)

\* C30: a check_approval_needed step hands on the state it was given: the
\* messages, the intent, the approval flag, the next action and every other
\* field of the pass are those it had when the step began, no completion
\* request is made, and conversations, contacts and stored messages are left
\* as they were.
C30_ApprovalGateOnlyObserves ==
    [][\A p \in Passes :
        (st[p].pc = "check_approval_needed" /\ st'[p] # st[p]) =>
            /\ [st'[p] EXCEPT !.pc = st[p].pc, !.path = st[p].path] = st[p]
            /\ st'[p].calls = st[p].calls
            /\ stored' = stored
            /\ contacts' = contacts
            /\ conversations' = conversations]_vars

\* a pass whose reply needs approval went through the gate, which logged it,
\* and returned with the flag and the next action still set
C30_Witness ==
    \E p \in Passes :
        /\ Returned(p)
        /\ Ran(p, "check_approval_needed")
        /\ st[p].requires_human_approval
        /\ st[p].next_action # None
        /\ st[p].result.requires_human_approval
        /\ \E i \in 1..Len(log) :
              /\ log[i].event = "Human approval required"
              /\ log[i].conversation_id = st[p].conversation_id

-----------------------------------------------------------------------------
(* the approval flag and the next action *)

\* C31, as claimed: a negotiation pending approval is a state with the
\* approval flag true and the next action unset.
C31_PendingNegotiationHasNoNextAction ==
    \A p \in Passes :
        (Ran(p, "handle_negotiation") /\ st[p].requires_human_approval) =>
            st[p].next_action = None

\* C31, amended: the approval flag is never true with the next action unset.
\* A pass whose flag is true ran the negotiation handler and holds
\* next_action = "pending_approval", or ran the contract handler and holds
\* next_action = "contract_approval_needed"; the result it returns carries
\* the same pair.
C31_ApprovalImpliesNextAction ==
    \A p \in Passes :
        /\ st[p].requires_human_approval =>
              \/ /\ Ran(p, "handle_negotiation")
                 /\ st[p].next_action = "pending_approval"
              \/ /\ Ran(p, "handle_contract_request")
                 /\ st[p].next_action = "contract_approval_needed"
        /\ (Returned(p) /\ st[p].result.requires_human_approval) =>
              st[p].result.next_action
                  \in {"pending_approval", "contract_approval_needed"}

\* a negotiation pass pending approval has returned, its next action set
C31_Witness ==
    \E p \in Passes :
        /\ Returned(p)
        /\ Ran(p, "handle_negotiation")
        /\ st[p].result.requires_human_approval
        /\ st[p].result.next_action = "pending_approval"

-----------------------------------------------------------------------------
(* the conversation of a call *)

\* no process_message call is in progress in p
NotInCall(p) == st[p].pc \in {"idle", "done", "failed"}

\* C32: a process_message call that was given no conversation id creates one
\* conversation and runs under its new id; a call that was given an id
\* creates none and runs under that id; no later step of the pass creates a
\* conversation or changes the id, and the result returned carries it, so
\* the turns of calls made with the returned id are stored under one id.
C32_ConversationCreatedOnlyWithoutId ==
    [][\A p \in Passes :
        /\ (NotInCall(p) /\ st'[p].pc = "classify_intent") =>
              IF st'[p].created
              THEN /\ st'[p].conversation_id \notin conversations
                   /\ conversations' = conversations \cup {st'[p].conversation_id}
              ELSE /\ st'[p].conversation_id \in conversations
                   /\ conversations' = conversations
        /\ (~NotInCall(p) /\ st'[p] # st[p]) =>
              /\ conversations' = conversations
              /\ st'[p].conversation_id = st[p].conversation_id
        /\ (st[p].pc = "END" /\ st'[p].pc = "done") =>
              st'[p].result.conversation_id = st[p].conversation_id
        /\ \A i \in 1..Len(stored') :
              stored'[i].conversation_id \in conversations'
      ]_vars

\* the second call of a run was given the id the first returned: one
\* conversation exists and the turns of both calls are stored under it
C32_Witness ==
    \E p \in Passes :
        /\ Returned(p)
        /\ passes = 2
        /\ ~st[p].created
        /\ conversations = {st[p].result.conversation_id}
        /\ Len(stored) >= 3
        /\ \A i \in 1..Len(stored) :
              stored[i].conversation_id = st[p].result.conversation_id

-----------------------------------------------------------------------------
(* which passes return a pending approval *)

\* C33: a result with requires_human_approval = TRUE comes from a pass that
\* ran the contract handler, or the negotiation handler with "accept" or
\* "agree" in its reply; a pass that ran the inquiry handler, asking for
\* details or handing over, reached by its own intent or by the fallback
\* route, returns requires_human_approval = FALSE and next_action = None.
C33_OnlyContractAndAcceptedTermsAreGated ==
    \A p \in Passes :
        Returned(p) =>
            /\ st[p].result.requires_human_approval =>
                  \/ Ran(p, "handle_contract_request")
                  \/ /\ Ran(p, "handle_negotiation")
                     /\ MentionsAcceptOrAgree(AgentTurn(p))
            /\ Ran(p, "handle_venue_inquiry") =>
                  /\ ~st[p].result.requires_human_approval
                  /\ st[p].result.next_action = None

\* an inquiry pass reached by the fallback route has returned a reply that
\* says "accept", not gated
C33_Witness ==
    \E p \in Passes :
        /\ Returned(p)
        /\ st[p].routed = "general"
        /\ Ran(p, "handle_venue_inquiry")
        /\ MentionsAcceptOrAgree(st[p].result.response)
        /\ ~st[p].result.requires_human_approval
        /\ st[p].result.next_action = None

-----------------------------------------------------------------------------
(* what a failed pass leaves in the store *)

\* C34: classification and the handlers write no turn and create or delete
\* no conversation, and once one of them has raised, the conversation of the
\* pass is still in the store while no turn of the pass is: a conversation
\* the failed call created holds no turn at all.
C34_FailedPassLeavesOnlyItsConversation ==
    [][\A p \in Passes :
        /\ (st[p].pc \in StageNodes /\ st'[p] # st[p]) =>
              /\ stored' = stored
              /\ conversations' = conversations
        /\ st'[p].error \in StageNodes =>
              /\ st'[p].conversation_id \in conversations'
              /\ st'[p].created =>
                    \A i \in 1..Len(stored') :
                        stored'[i].conversation_id # st'[p].conversation_id
      ]_vars

\* the second call of a run created conv-2 and failed in its handler: conv-2
\* exists with no turn, the turns of the first call are in the store
C34_Witness ==
    \E p \in Passes :
        /\ st[p].pc = "failed"
        /\ st[p].error \in Handlers
        /\ st[p].created
        /\ st[p].conversation_id \in conversations
        /\ Cardinality(conversations) = 2
        /\ stored # <<>>
        /\ \A i \in 1..Len(stored) :
              stored[i].conversation_id # st[p].conversation_id

-----------------------------------------------------------------------------
(* a store failure in the middle of save_to_database *)

\* the role a message of the pass is stored under
StoredRole(m) == IF IsAI(m) THEN "assistant" ELSE "user"

\* C35: a save_to_database step appends, after the rows the store held, the
\* turns of the pass in transcript order up to the first one whose append
\* fails, and none after it: all of them when no append fails, none when the
\* inbound turn fails, the inbound turn alone when the agent turn fails.
C35_SaveStopsAtFirstFailure ==
    [][\A p \in Passes :
        (st[p].pc = "save_to_database" /\ st'[p] # st[p]) =>
            LET n == Len(stored)
                k == Len(stored') - n
                messages == st[p].messages
            IN  /\ k \in 0..Len(messages)
                /\ SubSeq(stored', 1, n) = stored
                /\ \A i \in 1..k :
                      /\ stored'[n + i].content = messages[i].content
                      /\ stored'[n + i].role = StoredRole(messages[i])
                      /\ stored'[n + i].conversation_id = st[p].conversation_id
                /\ (k < Len(messages)) <=>
                      (Len(log') > Len(log) /\ SaveFailureLogged(log'))
      ]_vars

\* the append of the agent turn failed: the inbound turn of the pass is the
\* last row of the store
C35_Witness ==
    \E p \in Passes :
        /\ st[p].pc \in {"END", "done"}
        /\ SaveFailureLogged(log)
        /\ Len(st[p].messages) = 2
        /\ stored # <<>>
        /\ stored[Len(stored)].role = "user"
        /\ stored[Len(stored)].conversation_id = st[p].conversation_id
        /\ stored[Len(stored)].content = st[p].messages[1].content
        /\ st[p].created

-----------------------------------------------------------------------------
(* the response of a pass *)

\* the agent turns the pass appended
AgentTurns(p) == SelectSeq(st[p].messages, IsAI)

\* C36, as claimed: the response returned is the text of the last agent turn
\* of the pass, and it is "" exactly when the pass appended no agent turn,
\* which only an inquiry pass with no missing field does; no reply email goes
\* out for it.
C36_EmptyResponseExactlyWithoutAgentTurn ==
    \A p \in Passes :
        Returned(p) =>
            /\ AgentTurns(p) # <<>> =>
                  st[p].result.response
                      = AgentTurns(p)[Len(AgentTurns(p))].content
            /\ st[p].result.response = "" <=> AgentTurns(p) = <<>>
            /\ AgentTurns(p) = <<>> =>
                  /\ Ran(p, "handle_venue_inquiry")
                  /\ missing_details(st[p].slots) = <<>>
                  /\ ~SendsReply(st[p].result.response, st[p].sender_email)

\* C36, amended: the response returned is the text of the last agent turn of
\* the pass, and "" when the pass appended none, which only an inquiry pass
\* with no missing field does. The response is "" as well when the completion
\* behind the agent turn carried no text; no reply email goes out for an
\* empty response of either kind.
C36_ResponseIsLastAgentTurn ==
    \A p \in Passes :
        Returned(p) =>
            /\ IF AgentTurns(p) = <<>>
               THEN /\ st[p].result.response = ""
                    /\ Ran(p, "handle_venue_inquiry")
                    /\ missing_details(st[p].slots) = <<>>
               ELSE /\ st[p].result.response
                          = AgentTurns(p)[Len(AgentTurns(p))].content
                    /\ st[p].result.response = "" <=> st[p].heard.reply = ""
            /\ st[p].result.response = "" =>
                  ~SendsReply(st[p].result.response, st[p].sender_email)

\* a negotiation pass whose completion carried no text has returned "" with
\* its agent turn appended and stored
C36_Witness ==
    \E p \in Passes :
        /\ Returned(p)
        /\ Ran(p, "handle_negotiation")
        /\ Len(AgentTurns(p)) = 1
        /\ st[p].heard.reply = ""
        /\ st[p].result.response = ""
        /\ stored # <<>>
        /\ stored[Len(stored)].role = "assistant"
        /\ stored[Len(stored)].content = ""

-----------------------------------------------------------------------------
(* the waits between the attempts of generate *)

RECURSIVE Doubled(_)
\* 1 doubled k times
Doubled(k) == IF k = 0 THEN 1 ELSE 2 * Doubled(k - 1)

\* C37: an attempt of generate that fails with another attempt to follow is
\* followed by a wait of 2^k seconds, k the number of attempts that failed
\* before it; a final failed attempt and a successful attempt are followed
\* by no wait, and a call that has returned or raised makes no attempt more.
\* An attempt begins only when every attempt before it, and the wait after
\* it, is over.
C37_BackoffBetweenAttemptsOnly ==
    [][/\ (gen.pc = "loop" /\ gen' # gen /\ gen.attempt < gen.max_retries) =>
            /\ gen.attempts = gen.attempt
            /\ gen'.attempts = gen.attempts + 1
            /\ gen'.attempt = gen.attempt
            /\ gen'.slept = gen.slept
       /\ (gen.pc = "loop" /\ gen' # gen /\ gen.attempt >= gen.max_retries) =>
            /\ gen'.pc = "raised"
            /\ gen'.attempts = gen.attempts
            /\ gen'.slept = gen.slept
       /\ (gen.pc = "calling" /\ gen' # gen) =>
            /\ gen'.attempts = gen.attempts
            /\ gen'.attempt = gen.attempt
            /\ gen'.slept = gen.slept
            /\ gen'.pc \in {"returned", "raised", "sleeping"}
            /\ gen'.pc = "returned" <=> ~gen.fails[gen.attempt + 1]
       /\ (gen' # gen /\ gen'.pc = "sleeping") =>
            gen.attempt + 1 < gen.max_retries
       /\ (gen' # gen /\ gen'.pc = "raised"
                /\ gen.attempt < gen.max_retries) =>
            gen.attempt + 1 = gen.max_retries
       /\ (gen.pc = "sleeping" /\ gen' # gen) =>
            /\ gen'.pc = "loop"
            /\ gen'.attempts = gen.attempts
            /\ gen'.attempt = gen.attempt + 1
            /\ gen'.slept = gen.slept + Doubled(gen.attempt)
       /\ gen.pc \in {"returned", "raised"} => gen' = gen
      ]_vars

\* a call returned the response of its third attempt after waits of 1 and 2
\* seconds
C37_Witness ==
    /\ gen.pc = "returned"
    /\ gen.max_retries = 3
    /\ gen.attempts = 3
    /\ gen.slept = 3
    /\ gen.response = ResponseOf(3)

-----------------------------------------------------------------------------
(* the transcript of two calls in progress on one conversation *)

\* the call of p is in progress and its persister has run
SavedNotReturned(p) == st[p].pc = "END" /\ Ran(p, "save_to_database")

\* C38, as claimed: the store calls of two passes in progress on one
\* conversation interleave: once both have stored an inbound turn and an
\* agent turn, the transcript holds the two inbound turns before the two
\* agent turns, so that an agent turn does not directly follow the inbound
\* turn it answers.
C38_ConcurrentSavesInterleave ==
    \A p, q \in Passes :
        (p # q /\ SavedNotReturned(p) /\ SavedNotReturned(q)
            /\ st[p].conversation_id = st[q].conversation_id
            /\ Len(st[p].messages) = 2 /\ Len(st[q].messages) = 2) =>
            LET turns == TurnsOf(st[p].conversation_id)
                n == Len(turns)
            IN  /\ n >= 4
                /\ turns[n - 3].role = "user"
                /\ turns[n - 2].role = "user"
                /\ turns[n - 1].role = "assistant"
                /\ turns[n].role = "assistant"

\* C38 (amended): the turns of two passes never interleave in the store. The
\* persister of a pass stores the inbound turn of the pass and its agent
\* turns in one step, one after another and after everything stored before,
\* and no other step stores a turn: every agent turn in the store directly
\* follows the inbound turn it answers, whatever the passes in progress.
C38_SavesNeverInterleave ==
    /\ [](\A i \in 1..Len(stored) :
            stored[i].role = "assistant" =>
                /\ i > 1
                /\ stored[i - 1].role = "user"
                /\ stored[i - 1].conversation_id = stored[i].conversation_id)
    /\ [][stored' # stored =>
            \E p \in Passes :
                /\ st[p].pc = "save_to_database"
                /\ st'[p].pc = "END"
                /\ Len(stored') = Len(stored) + Len(st[p].messages)
                /\ SubSeq(stored', 1, Len(stored)) = stored
                /\ \A k \in 1..Len(st[p].messages) :
                     LET row == stored'[Len(stored) + k]
                     IN  /\ row.conversation_id = st[p].conversation_id
                         /\ row.content = st[p].messages[k].content
                         /\ row.role = IF k = 1 THEN "user" ELSE "assistant"
         ]_vars

\* two passes in progress at once on one conversation have both stored an
\* inbound turn and an agent turn
C38_Witness ==
    \E p, q \in Passes :
        /\ p # q
        /\ SavedNotReturned(p) /\ SavedNotReturned(q)
        /\ st[p].conversation_id = st[q].conversation_id
        /\ Len(st[p].messages) = 2 /\ Len(st[q].messages) = 2
        /\ Len(TurnsOf(st[p].conversation_id)) >= 4

-----------------------------------------------------------------------------
(* the answers of the webhook route *)

\* C39: a webhook request with a JSON body whose signature does not verify
\* is answered with status 401, not with the 500 of a processing failure.
C39_BadSignatureAnsweredWith401 ==
    (hook.pc = "handled" /\ json_loads_ok(hook.body)
        /\ ~SignatureMatches(hook)) =>
        hook.status = 401

\* C40: a webhook request with a JSON body whose Svix-Signature header
\* carries a v1 token equal to the base64 HMAC-SHA256 of the body under the
\* decoded secret passes the check: it is answered with 200 and handed to
\* process_message once.
C40_SignedRequestReachesCoreOnce ==
    (hook.pc = "handled" /\ json_loads_ok(hook.body)
        /\ SignatureMatches(hook)) =>
        /\ hook.status = 200
        /\ Cardinality({i \in 1..Len(hook.calls) :
                            hook.calls[i] = "process_message"}) = 1


=============================================================================
